---- MODULE Spec2Model ----
(***************************************************************************)
(* Secure key custody and policy-scoped execution engine of the Solana     *)
(* agentic wallet: ExecutionEngine (with its RateLimiter and               *)
(* VolumeTracker), the SecureKeyStore handle it retrieves, and the         *)
(* SecureAgenticWallet facade's canExecute preview.                        *)
(*                                                                         *)
(* One action is one synchronous run of JavaScript code: execute() runs    *)
(* from its first line to its first await, and each later action resumes   *)
(* one call after the promise it awaits has settled.  Amounts are SOL in   *)
(* whole model units; time is Date.now() in milliseconds.                  *)
(*                                                                         *)
(* Spec is the engine driven by a caller that awaits each execute() before *)
(* it makes the next one; SpecRace is the engine under overlapping         *)
(* execute() calls of one agent; SpecBurst is one agent executing more     *)
(* transactions in one window than the rate limiter keeps entries.         *)
(***************************************************************************)
EXTENDS Integers, Sequences, FiniteSets, TLC

\* ---- bounds of the model ------------------------------------------------
MaxExec == 2       \* Spec: execute() calls that get past the policy checks
MaxTicks == 1      \* Spec: advances of the clock
RaceCalls == 3     \* SpecRace: execute() calls in progress at once; none is made after this many passed the checks
MaxBurst == 102    \* SpecBurst: execute() calls
ScenarioExecs == 5 \* SpecScenario: execute() calls that get past the policy checks
PairExecs == 3     \* SpecPair: execute() calls that get past the policy checks
MaxStoreSteps == 3 \* SpecStore: key-store calls and file alterations
MaxVaultCalls == 3 \* SpecVault: key-store calls
MaxFacadeExecs == 2 \* SpecFacade: execute() calls that get past the policy checks
MaxAgentRuns == 4 \* SpecAgent: evaluateDecision calls that are executed or in progress
MaxWaits == 2 \* SpecAgent: clock advances
MaxSerialExecs == 2 \* SpecSerial: execute() calls that get past the policy checks
MaxInstanceExecs == 3 \* SpecInstances: execute() calls that get past the policy checks
MaxApprovalExecs == 2 \* SpecApproval: execute() calls that get past the policy checks
MaxRecords == 102 \* SpecLimiter: recordTransaction calls

\* ---- program constants --------------------------------------------------
WindowMs == 60000
MaxEntries == 100
READ_ONLY == 0
STANDARD == 2
VERSION == 1
TagLength == 16

\* ---- value sets ---------------------------------------------------------
Agents == {"a1", "a2"}
NoDest == "undefined"
Passwords == {"pw", "wrong"}
WalletIds == {"a1", "a.1"}
SecretKeys == {<<7, 255>>, <<0, 16>>}
PublicKeyOf(secretKey) == IF secretKey = <<7, 255>> THEN "P1" ELSE "P2"
Salts == {<<1>>, <<2>>}
Ivs == {<<1>>}
Fields == {"salt", "iv", "authTag", "encryptedKey"}
Alterations == {"flipped", "truncated", "garbled"}
\* the ids of the wallets, spelled out, and the characters getKeyFilePath keeps
Spelling ==
  [a1 |-> <<"a", "1">>, a2 |-> <<"a", "2">>, a_1 |-> <<"a", "_", "1">>]
  @@ ("a.1" :> <<"a", ".", "1">>)
SafeChars == {"a", "1", "2", "-", "_"}
PwCode == [pw |-> 1, wrong |-> 2, new |-> 3]
NotHex == 16
\* the lengths in bytes of an authentication tag that GCM allows
NewPasswords == {"pw", "new"}
Noise == {1, 2}
GcmTagLengths == {4, 8, 12, 13, 14, 15, 16}
StartTimes == {0, 43200000}
TickSteps == {30000, 43200000}

\* AgentPermissions.  hasAllowedDestinations = FALSE stands for an absent
\* allowedDestinations, requiresApproval = 0 for an absent threshold.
Profile(level, maxTx, maxDaily, actions, hasDests, dests, rate) ==
  [level |-> level, maxTransactionAmount |-> maxTx, maxDailyVolume |-> maxDaily,
   allowedActions |-> actions, hasAllowedDestinations |-> hasDests,
   allowedDestinations |-> dests, rateLimit |-> rate, requiresApproval |-> 0]

RaceProfile == Profile(STANDARD, 2, 3, {"transfer_sol", "close_account"}, FALSE, {}, 1)
BurstProfile == Profile(STANDARD, 2, 3, {"transfer_sol"}, FALSE, {}, MaxEntries + 1)
Profiles ==
  { RaceProfile,
    Profile(STANDARD, 1, 2, {"transfer_sol"}, TRUE, {"d1"}, 2),
    Profile(READ_ONLY, 2, 3, {"transfer_sol"}, FALSE, {}, 2) }

\* ActionParams.  hasAmount = FALSE stands for an absent amount.
Params(action, hasAmount, amount, destination) ==
  [action |-> action, hasAmount |-> hasAmount, amount |-> amount, destination |-> destination]
ParamSet ==
  { Params("transfer_sol", TRUE, 1, "d1"), Params("transfer_sol", TRUE, 2, "d1"),
    Params("transfer_sol", TRUE, 1, "d2"), Params("transfer_sol", TRUE, 2, "d2"),
    Params("transfer_sol", FALSE, 0, "d1"), Params("close_account", FALSE, 0, NoDest) }
RaceParams ==
  { Params("transfer_sol", TRUE, 2, "d1"), Params("close_account", FALSE, 0, NoDest) }
BurstParams == { Params("transfer_sol", TRUE, 0, "d1") }

VARIABLES
  now,            \* Date.now()
  ticks,          \* number of clock advances so far (bounded)
  permissions,    \* ExecutionEngine.permissions (a Map: its domain is the registered agents)
  transactions,   \* RateLimiter.transactions
  dailyVolume,    \* VolumeTracker.dailyVolume (a Map: its domain is the agents with a record)
  executionLog,   \* ExecutionEngine.executionLog
  keyStore,       \* SecureKeyStore: the files of storePath, by name, with the EncryptedKeyData in each
  heap,           \* the buffers of the key store's last call and of its caller
  last,           \* the key store's last call and what it answered
  storeSteps,     \* number of key-store calls and file alterations so far (bounded)
  liveKeys,       \* the decrypted secret keys not yet zeroed (by the call that retrieved them)
  calls,          \* the execute() calls: position, parameters, key handle, result
  windowStart,    \* history: Date.now() when the agent's volume record was last (re)started
  confirmed,      \* history: Date.now() of every recorded execution of the agent
  pending,        \* the changePassword and deleteWallet calls in progress, by caller
  agent,          \* Agent: state, cooldownUntil, consecutiveFailures, transactionLog
  decisions       \* the evaluateDecision and generateDecision calls in progress, by caller

vars == <<now, ticks, permissions, transactions, dailyVolume, executionLog,
          keyStore, heap, last, storeSteps, liveKeys, calls, windowStart, confirmed,
          pending, agent, decisions>>

\* ---- pure helpers -------------------------------------------------------
\* `params.amount || 0`
TxAmount(params) == IF params.hasAmount THEN params.amount ELSE 0

\* new Date().toISOString().split('T')[0]: the UTC calendar day of t
DateOf(t) == t \div 86400000

\* txTimes.filter((t) => now - t < windowMs)
Filter(txTimes, t) == SelectSeq(txTimes, LAMBDA x : t - x < WindowMs)

\* RateLimiter.canExecute
RateCanExecute(agentId, limit) == Len(Filter(transactions[agentId], now)) < limit

\* RateLimiter.recordTransaction: the agent's list after the call
RecordTransactionDropNewest(agentId) ==
  LET pushed == Append(transactions[agentId], now)
  IN  IF Len(pushed) > MaxEntries THEN SubSeq(pushed, 1, MaxEntries) ELSE pushed

RecordTransaction(agentId) ==
  LET pushed == Append(transactions[agentId], now)
  IN  IF Len(pushed) > MaxEntries THEN Tail(pushed) ELSE pushed

\* `!record || record.date !== today`
NoCurrentRecord(agentId) ==
  agentId \notin DOMAIN dailyVolume \/ dailyVolume[agentId].date # DateOf(now)

\* VolumeTracker.getVolume
GetVolume(agentId) ==
  IF NoCurrentRecord(agentId) THEN 0 ELSE dailyVolume[agentId].amount

\* addVolume on one accumulator shared by all agents
AddVolumeShared(agentId, amount) ==
  [a \in Agents |->
     IF NoCurrentRecord(a)
     THEN [amount |-> amount, date |-> DateOf(now)]
     ELSE [amount |-> dailyVolume[a].amount + amount, date |-> dailyVolume[a].date]]

\* VolumeTracker.addVolume: the Map after the call
AddVolume(agentId, amount) ==
  [a \in DOMAIN dailyVolume \cup {agentId} |->
     IF a # agentId THEN dailyVolume[a]
     ELSE IF NoCurrentRecord(agentId)
          THEN [amount |-> amount, date |-> DateOf(now)]
          ELSE [amount |-> dailyVolume[a].amount + amount, date |-> dailyVolume[a].date]]

\* validatePermissions without its per-transaction amount check
ValidatePermissionsNoAmount(agentId, params) ==
  IF agentId \notin DOMAIN permissions THEN "Agent not registered"
  ELSE LET perms == permissions[agentId]
       IN  IF perms.level = READ_ONLY
             THEN "Read-only agent cannot execute transactions"
           ELSE IF params.action \notin perms.allowedActions THEN "Action not allowed"
           ELSE IF perms.hasAllowedDestinations /\ params.destination # NoDest
                   /\ params.destination \notin perms.allowedDestinations
             THEN "Destination not in whitelist"
           ELSE "ok"

\* validatePermissions without its permission-level check
ValidatePermissionsNoLevel(agentId, params) ==
  IF agentId \notin DOMAIN permissions THEN "Agent not registered"
  ELSE LET perms == permissions[agentId]
       IN  IF params.action \notin perms.allowedActions THEN "Action not allowed"
           ELSE IF TxAmount(params) > perms.maxTransactionAmount
             THEN "Amount exceeds max"
           ELSE IF perms.hasAllowedDestinations /\ params.destination # NoDest
                   /\ params.destination \notin perms.allowedDestinations
             THEN "Destination not in whitelist"
           ELSE "ok"

\* ExecutionEngine.validatePermissions: "ok" or the reason of the denial (the
\* reasons are the code's messages without the values interpolated in them)
ValidatePermissionsEnforcing(agentId, params) ==
  IF agentId \notin DOMAIN permissions THEN "Agent not registered"
  ELSE LET perms == permissions[agentId]
       IN  IF perms.level = READ_ONLY
             THEN "Read-only agent cannot execute transactions"
           ELSE IF params.action \notin perms.allowedActions THEN "Action not allowed"
           ELSE IF TxAmount(params) > perms.maxTransactionAmount
             THEN "Amount exceeds max"
           ELSE IF perms.hasAllowedDestinations /\ params.destination # NoDest
                   /\ params.destination \notin perms.allowedDestinations
             THEN "Destination not in whitelist"
           ELSE IF perms.requiresApproval # 0
                   /\ TxAmount(params) >= perms.requiresApproval
             THEN "Transaction requires approval"
           ELSE "ok"

ValidatePermissions(agentId, params) ==
  IF agentId \notin DOMAIN permissions THEN "Agent not registered"
  ELSE LET perms == permissions[agentId]
       IN  IF perms.level = READ_ONLY
             THEN "Read-only agent cannot execute transactions"
           ELSE IF params.action \notin perms.allowedActions THEN "Action not allowed"
           ELSE IF TxAmount(params) > perms.maxTransactionAmount
             THEN "Amount exceeds max"
           ELSE IF perms.hasAllowedDestinations /\ params.destination # NoDest
                   /\ params.destination \notin perms.allowedDestinations
             THEN "Destination not in whitelist"
           ELSE "ok"

\* the checks of execute() with the daily volume checked before the rate limit
PolicyCheckVolumeFirst(agentId, params) ==
  LET permCheck == ValidatePermissions(agentId, params)
  IN  IF permCheck # "ok" THEN permCheck
      ELSE IF GetVolume(agentId) + TxAmount(params)
                > permissions[agentId].maxDailyVolume
        THEN "Daily volume limit exceeded"
      ELSE IF ~RateCanExecute(agentId, permissions[agentId].rateLimit)
        THEN "Rate limit exceeded"
      ELSE "ok"

\* The checks execute() makes before it touches the key store
PolicyCheck(agentId, params) ==
  LET permCheck == ValidatePermissions(agentId, params)
  IN  IF permCheck # "ok" THEN permCheck
      ELSE IF ~RateCanExecute(agentId, permissions[agentId].rateLimit)
        THEN "Rate limit exceeded"
      ELSE IF GetVolume(agentId) + TxAmount(params)
                > permissions[agentId].maxDailyVolume
        THEN "Daily volume limit exceeded"
      ELSE "ok"

\* ExecutionEngine.getRemainingAllowance
GetRemainingAllowance(agentId) ==
  IF agentId \notin DOMAIN permissions THEN 0
  ELSE LET rest == permissions[agentId].maxDailyVolume - GetVolume(agentId)
       IN  IF rest > 0 THEN rest ELSE 0

\* SecureAgenticWallet.canExecute of the wallet of agentId, whose
\* config.permissions is the profile its engine registered: "ok" or the reason
CanExecute(agentId, params) ==
  LET perms == permissions[agentId]
  IN  IF params.action \notin perms.allowedActions THEN "Action not allowed"
      ELSE IF TxAmount(params) > perms.maxTransactionAmount THEN "Amount exceeds max"
      ELSE IF TxAmount(params) > GetRemainingAllowance(agentId)
        THEN "Amount exceeds remaining allowance"
      ELSE IF perms.hasAllowedDestinations /\ params.destination # NoDest
              /\ params.destination \notin perms.allowedDestinations
        THEN "Destination not whitelisted"
      ELSE "ok"

\* ---- the key store's pure parts ------------------------------------------
\* getKeyFilePath: walletId.replace(/[^a-zA-Z0-9-_]/g, '_') + '.encrypted.json';
\* a file is named by the characters of its sanitized id
SafeChar(ch) == IF ch \in SafeChars THEN ch ELSE "_"
GetKeyFilePath(walletId) ==
  [i \in DOMAIN Spelling[walletId] |-> SafeChar(Spelling[walletId][i])]

\* a hex rendering that writes no leading zero digit
ToHexUnpadded(bytes) ==
  IF bytes = <<>> THEN <<>>
  ELSE LET head == IF bytes[1] < 16 THEN <<bytes[1]>>
                   ELSE <<bytes[1] \div 16, bytes[1] % 16>>
           tail == [i \in 1..(2 * (Len(bytes) - 1)) |->
                      IF i % 2 = 1 THEN bytes[(i + 1) \div 2 + 1] \div 16
                      ELSE bytes[i \div 2 + 1] % 16]
       IN  head \o tail

\* buf.toString('hex'): two digits per byte
ToHex(bytes) ==
  [i \in 1..(2 * Len(bytes)) |->
     IF i % 2 = 1 THEN bytes[(i + 1) \div 2] \div 16 ELSE bytes[i \div 2] % 16]

\* Buffer.from(str, 'hex'): decodes pairs of digits and stops at the first
\* pair that is not two hex digits (NotHex) or is incomplete; ValidPairs is
\* the number of pairs it decodes
ValidPairs(digits) ==
  LET bad == {i \in DOMAIN digits : digits[i] = NotHex}
      usable == IF bad = {} THEN Len(digits)
                ELSE (CHOOSE i \in bad : \A j \in bad : i <= j) - 1
  IN  usable \div 2
FromHex(digits) ==
  [i \in 1..ValidPairs(digits) |-> digits[2 * i - 1] * 16 + digits[2 * i]]

\* buffer.fill(0)
Zeroed(bytes) == [i \in DOMAIN bytes |-> 0]

\* deriveKey: PBKDF2 of the password and the salt, as an injective function
\* of the two with no zero byte
DeriveKeyNoPassword(password, salt) == <<1>> \o [i \in DOMAIN salt |-> salt[i] + 1]
DeriveKey(password, salt) == <<PwCode[password]>> \o [i \in DOMAIN salt |-> salt[i] + 1]

\* AES-256-GCM: the key stream of (key, iv) added to the plaintext, and an
\* authentication tag of 16 bytes that is an injective function of key, iv
\* and ciphertext
Pad(key, iv) == (64 * key[1] + 8 * (IF Len(key) > 1 THEN key[2] ELSE 0) + iv[1]) % 256
Encrypt(plain, key, iv) == [i \in DOMAIN plain |-> (plain[i] + Pad(key, iv)) % 256]
Decrypt(encrypted, key, iv) ==
  [i \in DOMAIN encrypted |-> (encrypted[i] + 256 - Pad(key, iv)) % 256]
AuthTag(encrypted, key, iv) ==
  LET content == <<Len(key)>> \o key \o <<Len(iv)>> \o iv \o encrypted
  IN  [i \in 1..TagLength |-> IF i <= Len(content) THEN content[i] ELSE 0]

\* the EncryptedKeyData that storeKey writes
EncryptedKeyData(secretKey, publicKey, password, salt, iv, createdAt, metadata) ==
  LET derivedKey == DeriveKey(password, salt)
      encrypted == Encrypt(secretKey, derivedKey, iv)
  IN  [version |-> VERSION, iv |-> ToHex(iv), salt |-> ToHex(salt),
       authTag |-> ToHex(AuthTag(encrypted, derivedKey, iv)),
       encryptedKey |-> ToHex(encrypted), publicKey |-> publicKey,
       createdAt |-> createdAt, metadata |-> metadata]

\* the key files of the agents, as SecureAgenticWallet.create stores them
AgentFiles ==
  [f \in {GetKeyFilePath(a) : a \in Agents} |->
     EncryptedKeyData(<<7, 255>>, "P1", "pw", <<1>>, <<1>>, 0, "m1")]

\* the buffers: storeKey's parameter secretKey (the caller's array), its copy
\* secretKeyBuffer, the derivedKey of storeKey or retrieveKey, and the
\* decrypted buffer and the secretKey of the handle retrieveKey returns
\* (<<>>: not allocated)
BufferNames == {"secretKey", "secretKeyBuffer", "derivedKey", "decrypted", "handleKey"}
NoBuffers == [b \in BufferNames |-> <<>>]
\* a call of the key store (or an alteration of a file): the operation, its
\* arguments, its outcome and the secretKey and publicKey it returned
NoCall ==
  [op |-> "none", walletId |-> "none", password |-> "none", argKey |-> <<>>,
   argPub |-> "none", outcome |-> "none", secretKey |-> <<>>, publicKey |-> "none"]

\* a changePassword or deleteWallet call of a caller: where it stands, its
\* arguments, the handle that changePassword retrieved, and its outcome
NoChange ==
  [op |-> "none", pc |-> "idle", walletId |-> "none", newPassword |-> "none",
   secretKey |-> <<>>, publicKey |-> "none", outcome |-> "none"]
NoPending == [c \in {1} |-> NoChange]

\* AgentConfig of the agent: a trading agent that may spend 1 SOL (amounts
\* and balances are in units of 0.01 SOL)
AgentConfig(autoApprove) ==
  [strategy |-> "trading", maxTransactionSize |-> 100, autoApprove |-> autoApprove]
\* the fields of an Agent after its constructor
NewAgent ==
  [config |-> AgentConfig(TRUE), state |-> "idle", cooldownUntil |-> 0,
   consecutiveFailures |-> 0, transactionLog |-> <<>>]
\* a Decision: its type, whether it names a targetAddress, and its amount
\* (0 stands for none)
Decision(type, hasTarget, amount) ==
  [type |-> type, targetAddress |-> hasTarget, amount |-> amount]
NoDecision == Decision("none", FALSE, 0)
\* a StrategyContext (successRate is kept as successfulTrades of totalTrades)
NoCtx ==
  [balance |-> 0, lastTradeTimestamp |-> 0, totalTrades |-> 0, successfulTrades |-> 0,
   consecutiveFailures |-> 0, cooldownUntil |-> 0]
\* an evaluateDecision or generateDecision call of a caller: where it stands,
\* its decision (argument or result), the context built for it, what it
\* returned, whether it asked the wallet to send, and (history) the calls
\* whose send was pending when its context was built
NoEvaluation ==
  [op |-> "none", pc |-> "idle", decision |-> NoDecision, ctx |-> NoCtx,
   outcome |-> "none", sent |-> FALSE, sending |-> {}]
AgentCalls == {1, 2}
NoDecisions == [c \in AgentCalls |-> NoEvaluation]

\* a file holds JSON text (an EncryptedKeyData) unless deleteWallet has
\* overwritten it with random bytes
IsJson(file) == "version" \in DOMAIN file

\* SecureKeyStore.retrieveKey: the outcome ("ok": a handle is returned, or
\* the message of the error thrown), the handle's secretKey and publicKey,
\* and the key derived from the password (<<>> when none was derived)
NoHandle(outcome, derivedKey) ==
  [outcome |-> outcome, secretKey |-> <<>>, publicKey |-> "none", derivedKey |-> derivedKey]
\* retrieveKey reading the key files in files
RetrieveKeyFrom(files, walletId, password) ==
  LET filePath == GetKeyFilePath(walletId)
  IN  IF filePath \notin DOMAIN files THEN NoHandle("Wallet not found", <<>>)
      ELSE IF ~IsJson(files[filePath]) THEN NoHandle("SyntaxError", <<>>)
      ELSE LET encryptedData == files[filePath]
               salt == FromHex(encryptedData.salt)
               iv == FromHex(encryptedData.iv)
               authTag == FromHex(encryptedData.authTag)
               encrypted == FromHex(encryptedData.encryptedKey)
               derivedKey == DeriveKey(password, salt)
           IN  IF encryptedData.version # VERSION
                 THEN NoHandle("Unsupported keystore version", <<>>)
               \* createDecipheriv rejects an empty iv; the decipher is made
               \* without authTagLength, so setAuthTag takes a tag of any
               \* length valid for GCM and final() compares that many bytes
               ELSE IF \/ Len(iv) = 0
                       \/ Len(authTag) \notin GcmTagLengths
                       \/ authTag # SubSeq(AuthTag(encrypted, derivedKey, iv),
                                           1, Len(authTag))
                 THEN NoHandle("Invalid password or corrupted keystore", derivedKey)
               ELSE [outcome |-> "ok",
                     secretKey |-> Decrypt(encrypted, derivedKey, iv),
                     publicKey |-> encryptedData.publicKey,
                     derivedKey |-> derivedKey]
RetrieveKey(walletId, password) == RetrieveKeyFrom(keyStore, walletId, password)

\* ExecutionEngine.buildTransaction: "ok" or the error thrown
BuildTransaction(params) ==
  IF params.action = "transfer_sol"
  THEN IF params.destination = NoDest \/ ~params.hasAmount
       THEN "Missing destination or amount for transfer_sol" ELSE "ok"
  ELSE IF params.action = "custom"
  THEN IF params.instructions = 0
       THEN "Missing instructions for custom action" ELSE "ok"
  ELSE "Unknown action"

\* ExecutionEngine.createResult (hasAmount = FALSE: the result carries no
\* amount).  The result's timestamp and signature are read by no operation
\* and are left out.
CreateResult(success, action, error, hasAmount, amount) ==
  [success |-> success, action |-> action, error |-> error,
   hasAmount |-> hasAmount, amount |-> amount]

\* ---- the calls ----------------------------------------------------------
\* A call is idle (not made), awaits a promise, or has returned its result to
\* its caller, who has not yet dropped it.  retrieved: the call has invoked
\* keyStore.retrieveKey; key: the handle it got, named after the call (0: none).
NoParams == [action |-> "none", hasAmount |-> FALSE, amount |-> 0, destination |-> NoDest]
NoResult == CreateResult(FALSE, "none", "none", FALSE, 0)
IdleCall ==
  [pc |-> "idle", agentId |-> "none", params |-> NoParams, settled |-> "none",
   retrieved |-> FALSE, key |-> 0, result |-> NoResult]

Calls == DOMAIN calls
InFlight(c) == calls[c].pc \notin {"idle", "returned"}

\* the handle's cleanup(): decrypted.fill(0); secretKey.fill(0)
Cleanup(key) == liveKeys \ {key}

Init ==
  /\ now \in StartTimes
  /\ ticks = 0
  /\ permissions = << >>
  /\ transactions = [a \in Agents |-> <<>>]
  /\ dailyVolume = << >>
  /\ executionLog = <<>>
  /\ keyStore = AgentFiles
  /\ heap = NoBuffers
  /\ last = NoCall
  /\ storeSteps = 0
  /\ liveKeys = {}
  /\ calls = [c \in {1} |-> IdleCall]
  /\ windowStart = [a \in Agents |-> 0]
  /\ confirmed = [a \in Agents |-> <<>>]
  /\ pending = NoPending
  /\ agent = NewAgent
  /\ decisions = NoDecisions

\* ---- actions ------------------------------------------------------------
\* ExecutionEngine.registerAgent
RegisterAgent(agentId, perms) ==
  /\ permissions' = [a \in DOMAIN permissions \cup {agentId} |->
                       IF a = agentId THEN perms ELSE permissions[a]]
  /\ UNCHANGED <<now, ticks, transactions, dailyVolume, executionLog,
                 keyStore, heap, last, storeSteps, liveKeys, calls, windowStart, confirmed, pending, agent, decisions>>

\* the clock advances
Tick(d) ==
  /\ ticks < MaxTicks
  /\ now' = now + d
  /\ ticks' = ticks + 1
  /\ UNCHANGED <<permissions, transactions, dailyVolume, executionLog,
                 keyStore, heap, last, storeSteps, liveKeys, calls, windowStart, confirmed, pending, agent, decisions>>

\* a rejection that counts the rejected attempt in the rate window
RejectAndRecord(c, agentId, params, reason) ==
  /\ calls' = [calls EXCEPT ![c] =
       [IdleCall EXCEPT !.pc = "returned", !.agentId = agentId, !.params = params,
                        !.result = CreateResult(FALSE, params.action, reason, FALSE, 0)]]
  /\ transactions' = [transactions EXCEPT ![agentId] = RecordTransaction(agentId)]
  /\ UNCHANGED <<liveKeys, dailyVolume, executionLog, windowStart, confirmed>>

\* execute() returns a rejection: `return this.createResult(false, ...)`
Reject(c, agentId, params, reason) ==
  /\ calls' = [calls EXCEPT ![c] =
       [IdleCall EXCEPT !.pc = "returned", !.agentId = agentId, !.params = params,
                        !.result = CreateResult(FALSE, params.action, reason, FALSE, 0)]]
  /\ UNCHANGED <<liveKeys, transactions, dailyVolume, executionLog, windowStart,
                 confirmed>>

\* execute(), from its first line to `await this.keyStore.retrieveKey(...)`:
\* the policy checks, and the call of retrieveKey, which runs synchronously
\* to its end and whose promise the call then awaits.
Execute(c, agentId, walletPassword, params) ==
  /\ calls[c].pc = "idle"
  /\ \A d \in Calls : d < c => calls[d].pc # "idle"
  /\ LET reason == PolicyCheck(agentId, params)
         key == RetrieveKey(agentId, walletPassword).outcome
     IN  IF reason # "ok"
         THEN Reject(c, agentId, params, reason)
         ELSE /\ calls' = [calls EXCEPT ![c] =
                   [IdleCall EXCEPT !.pc = "awaitKey", !.agentId = agentId,
                                    !.params = params, !.settled = key,
                                    !.retrieved = TRUE,
                                    !.key = IF key = "ok" THEN c ELSE 0]]
              /\ liveKeys' = IF key = "ok" THEN liveKeys \cup {c} ELSE liveKeys
              /\ UNCHANGED <<transactions, dailyVolume, executionLog, windowStart,
                             confirmed>>
  /\ UNCHANGED <<now, ticks, permissions, keyStore, heap, last, storeSteps, pending, agent, decisions>>

\* the outer catch block: the error becomes a failed result, which is logged
\* and returned
CatchEscaping(c, message) ==
  /\ calls' = [calls EXCEPT ![c].pc = "thrown", ![c].settled = "none"]
  /\ UNCHANGED <<now, ticks, permissions, transactions, dailyVolume, executionLog,
                 keyStore, heap, last, storeSteps, windowStart, confirmed, pending, agent, decisions>>
Catch(c, message) ==
  LET result == CreateResult(FALSE, calls[c].params.action, message, FALSE, 0)
  IN  /\ executionLog' = Append(executionLog, result)
      /\ calls' = [calls EXCEPT ![c].pc = "returned", ![c].settled = "none",
                                ![c].result = result]
      /\ UNCHANGED <<now, ticks, permissions, transactions, dailyVolume,
                     keyStore, heap, last, storeSteps, windowStart, confirmed, pending, agent, decisions>>

\* an error inside an inner try block that has no finally
ThrowWithoutFinally(c, message) ==
  /\ UNCHANGED liveKeys
  /\ Catch(c, message)

\* an error inside the inner try block: `finally { cleanup(); }`, then catch
Throw(c, message) ==
  /\ liveKeys' = Cleanup(calls[c].key)
  /\ Catch(c, message)

\* one more await of the inner try block
Await(c, pc, settled) ==
  /\ calls' = [calls EXCEPT ![c].pc = pc, ![c].settled = settled]
  /\ UNCHANGED <<now, ticks, permissions, transactions, dailyVolume,
                 executionLog, keyStore, heap, last, storeSteps, liveKeys, windowStart, confirmed, pending, agent, decisions>>

\* the promise of retrieveKey has settled: rejected, the error is caught;
\* fulfilled, the keypair is made and buildTransaction is called
ResumeKey(c) ==
  /\ calls[c].pc = "awaitKey"
  /\ IF calls[c].settled # "ok"
     THEN /\ UNCHANGED liveKeys
          /\ Catch(c, calls[c].settled)
     ELSE Await(c, "awaitBuild", BuildTransaction(calls[c].params))

\* the promise of buildTransaction has settled
ResumeBuild(c) ==
  /\ calls[c].pc = "awaitBuild"
  /\ IF calls[c].settled # "ok"
     THEN Throw(c, calls[c].settled)
     ELSE Await(c, "awaitBlockhash", "pending")

\* connection.getLatestBlockhash() has settled; on success the transaction
\* is signed and sent
ResumeBlockhash(c, ok) ==
  /\ calls[c].pc = "awaitBlockhash"
  /\ IF ~ok
     THEN Throw(c, "getLatestBlockhash failed")
     ELSE Await(c, "awaitSend", "pending")

\* connection.sendRawTransaction() has settled
ResumeSend(c, ok) ==
  /\ calls[c].pc = "awaitSend"
  /\ IF ~ok
     THEN Throw(c, "sendRawTransaction failed")
     ELSE Await(c, "awaitConfirm", "pending")

\* `// 11. Record successful execution` to the end of the inner try block,
\* and its finally
Record(c) ==
  LET agentId == calls[c].agentId
      txAmount == TxAmount(calls[c].params)
      result == CreateResult(TRUE, calls[c].params.action, "none", TRUE, txAmount)
  IN  /\ transactions' = [transactions EXCEPT ![agentId] = RecordTransaction(agentId)]
      /\ dailyVolume' = AddVolume(agentId, txAmount)
      /\ executionLog' = Append(executionLog, result)
      /\ liveKeys' = Cleanup(calls[c].key)
      /\ calls' = [calls EXCEPT ![c].pc = "returned", ![c].settled = "none",
                                ![c].result = result]
      /\ windowStart' = [windowStart EXCEPT ![agentId] =
                           IF NoCurrentRecord(agentId) THEN now ELSE @]
      /\ confirmed' = [confirmed EXCEPT ![agentId] = Append(@, now)]
      /\ UNCHANGED <<now, ticks, permissions, keyStore, heap, last, storeSteps, pending, agent, decisions>>

\* connection.confirmTransaction() has settled: it throws (the blockhash
\* expired, the wait timed out), or it resolves with a SignatureResult whose
\* err is null ("confirmed") or not ("err": the transaction failed on
\* chain).  execute() does not read the value it resolves with.
ConfirmOutcomes == {"confirmed", "err", "throws"}
ResumeConfirm(c, outcome) ==
  /\ calls[c].pc = "awaitConfirm"
  /\ IF outcome = "throws"
     THEN Throw(c, "confirmTransaction failed")
     ELSE Record(c)

\* the caller has taken the result of a call that returned
Return(c) ==
  /\ calls[c].pc = "returned"
  /\ calls' = [calls EXCEPT ![c] = IdleCall]
  /\ UNCHANGED <<now, ticks, permissions, transactions, dailyVolume,
                 executionLog, keyStore, heap, last, storeSteps, liveKeys, windowStart, confirmed, pending, agent, decisions>>

\* the execute() calls that got past the policy checks so far: rejected calls
\* change nothing and need no bound
Load == Len(executionLog) + Cardinality({c \in Calls : InFlight(c)})

Next ==
  \/ \E p \in Profiles : RegisterAgent("a1", p)
  \/ \E d \in TickSteps : Tick(d)
  \/ \E c \in Calls, a \in Agents, w \in Passwords, p \in ParamSet :
       Execute(c, a, w, p) /\ Load' <= MaxExec
  \/ \E c \in Calls : ResumeKey(c)
  \/ \E c \in Calls : ResumeBuild(c)
  \/ \E c \in Calls, ok \in BOOLEAN : ResumeBlockhash(c, ok)
  \/ \E c \in Calls, ok \in BOOLEAN : ResumeSend(c, ok)
  \/ \E c \in Calls, o \in ConfirmOutcomes : ResumeConfirm(c, o)
  \/ \E c \in Calls : Return(c)

\* One engine, any agent registered at any time, one execute() call at a time.
Spec == Init /\ [][Next]_vars

\* One engine whose agent a1 is registered once, as SecureAgenticWallet.create
\* does, and whose caller starts execute() calls without awaiting the earlier
\* ones.
InitRace ==
  /\ now = 0
  /\ ticks = 0
  /\ permissions = [a \in {"a1"} |-> RaceProfile]
  /\ transactions = [a \in Agents |-> <<>>]
  /\ dailyVolume = << >>
  /\ executionLog = <<>>
  /\ keyStore = AgentFiles
  /\ heap = NoBuffers
  /\ last = NoCall
  /\ storeSteps = 0
  /\ liveKeys = {}
  /\ calls = [c \in 1..RaceCalls |-> IdleCall]
  /\ windowStart = [a \in Agents |-> 0]
  /\ confirmed = [a \in Agents |-> <<>>]
  /\ pending = NoPending
  /\ agent = NewAgent
  /\ decisions = NoDecisions

NextRace ==
  \/ \E c \in Calls, w \in Passwords, p \in RaceParams :
       Load < RaceCalls /\ Execute(c, "a1", w, p)
  \/ \E c \in Calls : ResumeKey(c)
  \/ \E c \in Calls : ResumeBuild(c)
  \/ \E c \in Calls, ok \in BOOLEAN : ResumeBlockhash(c, ok)
  \/ \E c \in Calls, ok \in BOOLEAN : ResumeSend(c, ok)
  \/ \E c \in Calls, o \in ConfirmOutcomes : ResumeConfirm(c, o)
  \/ \E c \in Calls : Return(c)

SpecRace == InitRace /\ [][NextRace]_vars

\* One engine whose agent a1 has a rate limit above the limiter's capacity
\* and executes, one call after the other, within one millisecond.
InitBurst ==
  /\ now = 0
  /\ ticks = 0
  /\ permissions = [a \in {"a1"} |-> BurstProfile]
  /\ transactions = [a \in Agents |-> <<>>]
  /\ dailyVolume = << >>
  /\ executionLog = <<>>
  /\ keyStore = AgentFiles
  /\ heap = NoBuffers
  /\ last = NoCall
  /\ storeSteps = 0
  /\ liveKeys = {}
  /\ calls = [c \in {1} |-> IdleCall]
  /\ windowStart = [a \in Agents |-> 0]
  /\ confirmed = [a \in Agents |-> <<>>]
  /\ pending = NoPending
  /\ agent = NewAgent
  /\ decisions = NoDecisions

NextBurst ==
  \/ \E p \in BurstParams : Len(executionLog) < MaxBurst /\ Execute(1, "a1", "pw", p)
  \/ ResumeKey(1)
  \/ ResumeBuild(1)
  \/ ResumeBlockhash(1, TRUE)
  \/ ResumeSend(1, TRUE)
  \/ ResumeConfirm(1, "confirmed")
  \/ Return(1)

SpecBurst == InitBurst /\ [][NextBurst]_vars

\* ---- claims -------------------------------------------------------------
\* the step in which execute() is called as call c
Called(c) == calls[c].pc = "idle" /\ calls'[c].pc # "idle"
\* what the policy checks of a call answered: "ok", or the rejection's reason
Outcome(call) == IF call.pc = "returned" /\ ~call.retrieved THEN call.result.error ELSE "ok"
RecentCount(agentId) == Cardinality({i \in DOMAIN transactions[agentId] :
                                       now - transactions[agentId][i] < WindowMs})
PermissionDenied ==
  {"Agent not registered", "Read-only agent cannot execute transactions",
   "Action not allowed", "Amount exceeds max", "Destination not in whitelist"}
PolicyReasons == PermissionDenied \cup {"Rate limit exceeded", "Daily volume limit exceeded"}

\* every policy check of the claim C1 passes for the request, in the current state
AllChecksPass(agentId, params) ==
  /\ agentId \in DOMAIN permissions
  /\ LET perms == permissions[agentId]
         currentVolume ==
           IF agentId \in DOMAIN dailyVolume /\ dailyVolume[agentId].date = DateOf(now)
           THEN dailyVolume[agentId].amount ELSE 0
     IN  /\ perms.level # READ_ONLY
         /\ params.action \in perms.allowedActions
         /\ TxAmount(params) <= perms.maxTransactionAmount
         /\ currentVolume + TxAmount(params) <= perms.maxDailyVolume
         /\ RecentCount(agentId) < perms.rateLimit
         /\ (perms.hasAllowedDestinations /\ params.destination # NoDest
               => params.destination \in perms.allowedDestinations)

\* C1: a call of execute() retrieves the key, and later signs, only when in
\* that same call every policy check has passed: registered, not ReadOnly,
\* action allowed, amount <= maxTransactionAmount, currentVolume + amount <=
\* maxDailyVolume, recent count < rateLimit, destination allowed if both given.
C1_KeyOnlyAfterPolicy ==
  /\ [][\A c \in Calls :
          (~calls[c].retrieved /\ calls'[c].retrieved)
            => /\ Called(c)
               /\ AllChecksPass(calls'[c].agentId, calls'[c].params)]_vars
  /\ [](\A c \in Calls :
          (InFlight(c) \/ calls[c].key # 0 \/ c \in liveKeys) => calls[c].retrieved)

\* a transaction has been signed and sent for an agent that had executed before
C1_Witness ==
  \E c \in Calls : /\ calls[c].pc = "awaitConfirm"
                   /\ c \in liveKeys
                   /\ calls[c].agentId \in DOMAIN dailyVolume

\* C2: a call that a policy check rejects, and in particular every call with
\* amount > maxTransactionAmount, never invokes retrieveKey and leaves the
\* rate window and the volume accumulator as they were.
C2_RejectionTouchesNothing ==
  [][\A c \in Calls :
       Called(c) =>
         LET call == calls'[c]
             overCap == /\ call.agentId \in DOMAIN permissions
                        /\ TxAmount(call.params)
                             > permissions[call.agentId].maxTransactionAmount
         IN  /\ overCap => call.pc = "returned" /\ call.result.error \in PermissionDenied
             /\ call.pc = "returned"
                  => /\ ~call.result.success
                     /\ call.result.error \in PolicyReasons
                     /\ ~call.retrieved /\ call.key = 0
                     /\ liveKeys' = liveKeys
                     /\ transactions' = transactions
                     /\ dailyVolume' = dailyVolume]_vars

\* a call over the per-transaction cap was rejected, for an agent with quota on record
C2_Witness ==
  \E c \in Calls : /\ calls[c].pc = "returned"
                   /\ calls[c].result.error = "Amount exceeds max"
                   /\ transactions[calls[c].agentId] # <<>>
                   /\ calls[c].agentId \in DOMAIN dailyVolume

\* C3: whenever execute() has returned (rejected, confirmed or failed, an
\* exception of build, sign, submit or confirm included), every key handle it
\* retrieved is released: no decrypted secret outlives the call that got it.
C3_KeyReleasedOnReturn ==
  /\ \A k \in liveKeys : k \in Calls /\ InFlight(k) /\ calls[k].key = k
  /\ \A c \in Calls : calls[c].pc = "returned" => calls[c].key \notin liveKeys

\* a call that had retrieved the key failed at submission and has returned,
\* while another call still holds its key
C3_Witness ==
  \E c, d \in Calls : /\ calls[c].pc = "returned"
                      /\ calls[c].key = c
                      /\ calls[c].result.error = "sendRawTransaction failed"
                      /\ d \in liveKeys

\* C4: execute() records the rate tick and the volume only after a confirmed
\* submission: when the confirmation does not report the transaction as
\* confirmed, neither the rate window nor the volume accumulator changes.
C4_Original ==
  [][\A c \in Calls, o \in ConfirmOutcomes \ {"confirmed"} :
       ResumeConfirm(c, o) => transactions' = transactions /\ dailyVolume' = dailyVolume]_vars

\* C5: at no time are two execute() calls of one identity both between their
\* policy check and their quota-recording step.
C5_Original ==
  \A c, d \in Calls :
    (c # d /\ InFlight(c) /\ InFlight(d)) => calls[c].agentId # calls[d].agentId

\* C6: under any interleaving of concurrent execute() calls of one identity,
\* the accumulated volume exceeds maxDailyVolume by at most the amount of one
\* transaction, and the executions recorded within 60 s exceed rateLimit by
\* at most one.
C6_Original ==
  \A a \in DOMAIN permissions :
    /\ GetVolume(a) <= permissions[a].maxDailyVolume + permissions[a].maxTransactionAmount
    /\ RecentCount(a) <= permissions[a].rateLimit + 1

\* the policy checks by the reason each gives, and whether the request fails it
CheckFails(reason, agentId, params) ==
  LET perms == permissions[agentId]
  IN  CASE reason = "Read-only agent cannot execute transactions" ->
             perms.level = READ_ONLY
        [] reason = "Action not allowed" -> params.action \notin perms.allowedActions
        [] reason = "Amount exceeds max" ->
             TxAmount(params) > perms.maxTransactionAmount
        [] reason = "Daily volume limit exceeded" ->
             TxAmount(params) > perms.maxDailyVolume - GetVolume(agentId)
        [] reason = "Destination not in whitelist" ->
             /\ perms.hasAllowedDestinations /\ params.destination # NoDest
             /\ params.destination \notin perms.allowedDestinations
        [] reason = "Rate limit exceeded" -> RecentCount(agentId) >= perms.rateLimit

\* the reason of the first check of `order` that the request fails, or "ok"
FirstFailure(order, agentId, params) ==
  IF agentId \notin DOMAIN permissions THEN "Agent not registered"
  ELSE LET failing == {i \in DOMAIN order : CheckFails(order[i], agentId, params)}
       IN  IF failing = {} THEN "ok"
           ELSE order[CHOOSE i \in failing : \A j \in failing : i <= j]

ClaimedOrder ==
  <<"Read-only agent cannot execute transactions", "Action not allowed",
    "Amount exceeds max", "Daily volume limit exceeded",
    "Destination not in whitelist", "Rate limit exceeded">>
AmendedOrder ==
  <<"Read-only agent cannot execute transactions", "Action not allowed",
    "Amount exceeds max", "Destination not in whitelist", "Rate limit exceeded",
    "Daily volume limit exceeded">>

C8_Original ==
  [][\A c \in Calls :
       (Called(c) /\ calls'[c].agentId \in DOMAIN permissions)
         => ((CanExecute(calls'[c].agentId, calls'[c].params) = "ok")
               <=> (Outcome(calls'[c]) = "ok"))]_vars

\* C9: for any positive rateLimit L, of L+1 executions within 60 s whose
\* first L are confirmed exactly the (L+1)th is rejected, with "Rate limit
\* exceeded"; once no execution was recorded in the last 60 s, a new one is
\* accepted.  (A request that passes validatePermissions is rate limited
\* exactly when L or more executions were confirmed in the last 60 s.)
ConfirmedWithin60s(agentId) ==
  Cardinality({i \in DOMAIN confirmed[agentId] : now - confirmed[agentId][i] < 60000})
C9_Original ==
  [][\A c \in Calls :
       (Called(c) /\ Outcome(calls'[c]) \notin PermissionDenied)
         => ((Outcome(calls'[c]) = "Rate limit exceeded")
               <=> (ConfirmedWithin60s(calls'[c].agentId)
                      >= permissions[calls'[c].agentId].rateLimit))]_vars

\* C10: getVolume returns the accumulated amount as long as no more than 24 h
\* have passed since the first transaction of the window, and 0 when no window
\* exists or more than 24 h have passed, whatever the calendar day.
C10_Original ==
  \A a \in Agents :
    GetVolume(a) = IF a \in DOMAIN dailyVolume /\ now - windowStart[a] <= 24 * 60 * 60 * 1000
                   THEN dailyVolume[a].amount ELSE 0

\* ---- the volume scenario ------------------------------------------------
\* One engine whose agent a1 has maxTransactionAmount 0.05, maxDailyVolume
\* 0.20 and rateLimit 10, in units of 0.01 SOL, and whose caller executes
\* transfers of 0.01 and of 0.20 one after the other within one window.
ScenarioProfile == Profile(STANDARD, 5, 20, {"transfer_sol"}, FALSE, {}, 10)
ScenarioParams ==
  { Params("transfer_sol", TRUE, 1, "d1"), Params("transfer_sol", TRUE, 20, "d1") }

InitScenario ==
  /\ now = 0
  /\ ticks = 0
  /\ permissions = [a \in {"a1"} |-> ScenarioProfile]
  /\ transactions = [a \in Agents |-> <<>>]
  /\ dailyVolume = << >>
  /\ executionLog = <<>>
  /\ keyStore = AgentFiles
  /\ heap = NoBuffers
  /\ last = NoCall
  /\ storeSteps = 0
  /\ liveKeys = {}
  /\ calls = [c \in {1} |-> IdleCall]
  /\ windowStart = [a \in Agents |-> 0]
  /\ confirmed = [a \in Agents |-> <<>>]
  /\ pending = NoPending
  /\ agent = NewAgent
  /\ decisions = NoDecisions

NextScenario ==
  \/ \E p \in ScenarioParams : Execute(1, "a1", "pw", p) /\ Load' <= ScenarioExecs
  \/ ResumeKey(1)
  \/ ResumeBuild(1)
  \/ \E ok \in BOOLEAN : ResumeBlockhash(1, ok)
  \/ \E ok \in BOOLEAN : ResumeSend(1, ok)
  \/ \E o \in ConfirmOutcomes : ResumeConfirm(1, o)
  \/ Return(1)

SpecScenario == InitScenario /\ [][NextScenario]_vars

\* C11 (as claimed): five executions of 0.01 each succeed and bring the volume
\* to 0.05; a sixth execution of 0.20 is then rejected with VolumeExceeded.
C11_Original ==
  [][(Called(1) /\ GetVolume("a1") = 5 /\ TxAmount(calls'[1].params) = 20)
       => Outcome(calls'[1]) = "Daily volume limit exceeded"]_vars

\* C11 (amended): each of the first five executions of 0.01 passes the policy
\* checks, every confirmed one adds 0.01 to the volume (0.05 after five), and
\* an execution of 0.20 is then rejected because the amount exceeds
\* maxTransactionAmount, leaving the volume at 0.05 and the allowance at 0.15.
C11_AmountRejectedFirst ==
  /\ [][Called(1) =>
          /\ (TxAmount(calls'[1].params) = 1 /\ Len(confirmed["a1"]) < 5)
               => Outcome(calls'[1]) = "ok"
          /\ TxAmount(calls'[1].params) = 20
               => /\ Outcome(calls'[1]) = "Amount exceeds max"
                  /\ GetVolume("a1")' = GetVolume("a1")]_vars
  /\ [](/\ GetVolume("a1") = Len(confirmed["a1"])
        /\ GetRemainingAllowance("a1") = 20 - Len(confirmed["a1"]))

\* after five confirmed executions of 0.01 a sixth of 0.20 was rejected for its amount
C11_Witness ==
  /\ calls[1].pc = "returned"
  /\ calls[1].params.amount = 20
  /\ calls[1].result.error = "Amount exceeds max"
  /\ Len(confirmed["a1"]) = 5
  /\ GetVolume("a1") = 5
  /\ GetRemainingAllowance("a1") = 15

\* C12: for an identity whose level is ReadOnly, every execute call, for any
\* action and amount (an allowed action and amount 0 included), in any state
\* and after any history, is rejected as read-only, without touching the key
\* store, the quota or the log.
C12_ReadOnlyAlwaysRejected ==
  [][\A c \in Calls :
       (/\ Called(c)
        /\ calls'[c].agentId \in DOMAIN permissions
        /\ permissions[calls'[c].agentId].level = READ_ONLY)
         => /\ calls'[c].pc = "returned"
            /\ ~calls'[c].result.success
            /\ calls'[c].result.error = "Read-only agent cannot execute transactions"
            /\ ~calls'[c].retrieved
            /\ UNCHANGED <<transactions, dailyVolume, executionLog, liveKeys>>]_vars

\* an allowed action of amount 0 was rejected as read-only for an agent that
\* had executed before its profile became ReadOnly
C12_Witness ==
  \E c \in Calls :
    /\ calls[c].pc = "returned"
    /\ calls[c].result.error = "Read-only agent cannot execute transactions"
    /\ calls[c].params.action \in permissions[calls[c].agentId].allowedActions
    /\ TxAmount(calls[c].params) = 0
    /\ calls[c].agentId \in DOMAIN dailyVolume

\* ---- two identities on one engine ---------------------------------------
\* One engine with the agents a1 and a2 registered.  Each identity has one
\* caller, which awaits its execute() before it starts the next, so that a
\* call of a1 and a call of a2 are in progress at once.
PairSlot == [a1 |-> 1, a2 |-> 2]

InitPair ==
  /\ now = 0
  /\ ticks = 0
  /\ permissions = [a \in Agents |-> RaceProfile]
  /\ transactions = [a \in Agents |-> <<>>]
  /\ dailyVolume = << >>
  /\ executionLog = <<>>
  /\ keyStore = AgentFiles
  /\ heap = NoBuffers
  /\ last = NoCall
  /\ storeSteps = 0
  /\ liveKeys = {}
  /\ calls = [c \in {PairSlot[a] : a \in Agents} |-> IdleCall]
  /\ windowStart = [a \in Agents |-> 0]
  /\ confirmed = [a \in Agents |-> <<>>]
  /\ pending = NoPending
  /\ agent = NewAgent
  /\ decisions = NoDecisions

NextPair ==
  \/ \E a \in Agents, w \in Passwords, p \in RaceParams :
       Execute(PairSlot[a], a, w, p) /\ Load' <= PairExecs
  \/ \E c \in Calls : ResumeKey(c)
  \/ \E c \in Calls : ResumeBuild(c)
  \/ \E c \in Calls, ok \in BOOLEAN : ResumeBlockhash(c, ok)
  \/ \E c \in Calls, ok \in BOOLEAN : ResumeSend(c, ok)
  \/ \E c \in Calls, o \in ConfirmOutcomes : ResumeConfirm(c, o)
  \/ \E c \in Calls : Return(c)

SpecPair == InitPair /\ [][NextPair]_vars

\* the step is one of call c, made for agentId
StepOf(c, agentId) ==
  /\ calls'[c] # calls[c]
  /\ agentId = IF calls[c].pc = "idle" THEN calls'[c].agentId ELSE calls[c].agentId

\* the agent's volume record, if it has one
VolumeRecord(agentId) ==
  IF agentId \in DOMAIN dailyVolume THEN <<dailyVolume[agentId]>> ELSE <<>>

\* C13: no step of an execute call for identity A (accepted, rejected, failed
\* or in flight) changes identity B's rate window or volume accumulator, the
\* answer of the policy checks or of the key store to any request of B, or
\* the position of a call of B in flight.
C13_IdentitiesIndependent ==
  [][\A c \in Calls, A \in Agents, B \in Agents :
       (StepOf(c, A) /\ A # B)
         => /\ transactions'[B] = transactions[B]
            /\ VolumeRecord(B)' = VolumeRecord(B)
            /\ \A p \in RaceParams : PolicyCheck(B, p)' = PolicyCheck(B, p)
            /\ \A w \in Passwords :
                 RetrieveKeyFrom(keyStore', B, w) = RetrieveKeyFrom(keyStore, B, w)
            /\ \A d \in Calls : calls[d].agentId = B => calls'[d] = calls[d]]_vars

\* an execution of a1 and one of a2 were both recorded and have returned
C13_Witness ==
  \E c, d \in Calls :
    /\ calls[c].pc = "returned" /\ calls[c].agentId = "a1" /\ calls[c].result.success
    /\ calls[d].pc = "returned" /\ calls[d].agentId = "a2" /\ calls[d].result.success
    /\ transactions["a1"] # <<>> /\ transactions["a2"] # <<>>
    /\ {"a1", "a2"} \subseteq DOMAIN dailyVolume

\* what an ExecutionResult tells its reader apart from the free text of its
\* error: whether it succeeded, and whether it carries an amount
ResultKind(result) == <<result.success, result.hasAmount>>

\* C14: when the confirmation of a submitted transaction times out (here:
\* confirmTransaction throws), execute returns a result of a kind of its own,
\* neither that of a success nor that of a build or submission failure, and
\* records neither a rate tick nor volume.
C14_Original ==
  [][\A c \in Calls :
       ResumeConfirm(c, "throws")
         => /\ transactions' = transactions
            /\ dailyVolume' = dailyVolume
            /\ ResultKind(calls'[c].result)
                 # ResultKind(CreateResult(TRUE, calls[c].params.action, "none", TRUE,
                                           TxAmount(calls[c].params)))
            /\ ResultKind(calls'[c].result)
                 # ResultKind(CreateResult(FALSE, calls[c].params.action,
                                           "sendRawTransaction failed", FALSE, 0))]_vars

\* ---- progress of a call -------------------------------------------------
\* The scenario's engine with the steps the event loop guarantees: a
\* continuation runs once its promise has settled.  The promises of
\* retrieveKey and buildTransaction settle by the engine's own code, and the
\* ledger is taken to answer getLatestBlockhash; execute() passes no timeout
\* to sendRawTransaction or confirmTransaction and sets no timer of its own,
\* so nothing makes these two promises settle.
SpecLive ==
  /\ SpecScenario
  /\ WF_vars(ResumeKey(1))
  /\ WF_vars(ResumeBuild(1))
  /\ WF_vars(\E ok \in BOOLEAN : ResumeBlockhash(1, ok))

\* C15: every execute call eventually reaches a terminal state, returns its
\* result and has released its key handle, even when the ledger never answers
\* a submission or a confirmation.
C15_Original ==
  InFlight(1) ~> (calls[1].pc = "returned" /\ 1 \notin liveKeys)

\* ---- the key store ------------------------------------------------------
\* SecureKeyStore.storeKey, which runs without suspending.  salt and iv are
\* the crypto.randomBytes it draws; written = FALSE: fs.writeFileSync throws.
\* Buffer.from(secretKey) copies the caller's array.
StoreKey(walletId, secretKey, publicKey, password, metadata, salt, iv, written) ==
  LET derivedKey == DeriveKey(password, salt)
      filePath == GetKeyFilePath(walletId)
      encryptedData ==
        EncryptedKeyData(secretKey, publicKey, password, salt, iv, now, metadata)
  IN  /\ storeSteps < MaxStoreSteps
      /\ keyStore' = IF written
                     THEN [f \in DOMAIN keyStore \cup {filePath} |->
                             IF f = filePath THEN encryptedData ELSE keyStore[f]]
                     ELSE keyStore
      /\ heap' = [heap EXCEPT
                    !["secretKey"] = secretKey,
                    !["secretKeyBuffer"] = IF written THEN Zeroed(secretKey) ELSE secretKey,
                    !["derivedKey"] = IF written THEN Zeroed(derivedKey) ELSE derivedKey]
      /\ last' = [NoCall EXCEPT !.op = "storeKey", !.walletId = walletId,
                                !.password = password, !.argKey = secretKey,
                                !.argPub = publicKey,
                                !.outcome = IF written THEN "ok" ELSE "writeFileSync failed"]
      /\ storeSteps' = storeSteps + 1
      /\ UNCHANGED <<now, ticks, permissions, transactions, dailyVolume, executionLog,
                     liveKeys, calls, windowStart, confirmed, pending, agent, decisions>>

\* retrieveKey clearing the derived key at the end of its try block only
RetrieveKeyCallNoFinally(walletId, password) ==
  LET handle == RetrieveKey(walletId, password)
  IN  /\ storeSteps < MaxStoreSteps
      /\ heap' = [heap EXCEPT !["derivedKey"] = IF handle.outcome = "ok"
                                                THEN Zeroed(handle.derivedKey)
                                                ELSE handle.derivedKey,
                              !["decrypted"] = handle.secretKey,
                              !["handleKey"] = handle.secretKey]
      /\ last' = [NoCall EXCEPT !.op = "retrieveKey", !.walletId = walletId,
                                !.password = password, !.outcome = handle.outcome,
                                !.secretKey = handle.secretKey,
                                !.publicKey = handle.publicKey]
      /\ storeSteps' = storeSteps + 1
      /\ UNCHANGED <<now, ticks, permissions, transactions, dailyVolume, executionLog,
                     keyStore, liveKeys, calls, windowStart, confirmed, pending, agent, decisions>>

\* a call of SecureKeyStore.retrieveKey, which runs without suspending: its
\* finally block zeroes the derived key, and the handle it returns holds the
\* decrypted buffer and its copy secretKey
RetrieveKeyCall(walletId, password) ==
  LET handle == RetrieveKey(walletId, password)
  IN  /\ storeSteps < MaxStoreSteps
      /\ heap' = [heap EXCEPT !["derivedKey"] = Zeroed(handle.derivedKey),
                              !["decrypted"] = handle.secretKey,
                              !["handleKey"] = handle.secretKey]
      /\ last' = [NoCall EXCEPT !.op = "retrieveKey", !.walletId = walletId,
                                !.password = password, !.outcome = handle.outcome,
                                !.secretKey = handle.secretKey,
                                !.publicKey = handle.publicKey]
      /\ storeSteps' = storeSteps + 1
      /\ UNCHANGED <<now, ticks, permissions, transactions, dailyVolume, executionLog,
                     keyStore, liveKeys, calls, windowStart, confirmed, pending, agent, decisions>>

\* the handle's cleanup()
CleanupCall ==
  /\ storeSteps < MaxStoreSteps
  /\ heap["handleKey"] # <<>>
  /\ heap["handleKey"] # Zeroed(heap["handleKey"])
  /\ heap' = [heap EXCEPT !["decrypted"] = Zeroed(@), !["handleKey"] = Zeroed(@)]
  /\ last' = [NoCall EXCEPT !.op = "cleanup"]
  /\ storeSteps' = storeSteps + 1
  /\ UNCHANGED <<now, ticks, permissions, transactions, dailyVolume, executionLog,
                 keyStore, liveKeys, calls, windowStart, confirmed, pending, agent, decisions>>

\* a hex string of a key file altered on disk: one digit changed, the last
\* digit cut off, or its first character replaced by one that is no hex digit
Alter(digits, how) ==
  CASE how = "flipped" -> [digits EXCEPT ![Len(digits)] = (@ + 1) % 16]
    [] how = "truncated" -> SubSeq(digits, 1, Len(digits) - 1)
    [] how = "garbled" -> [digits EXCEPT ![1] = NotHex]

\* somebody with access to storePath alters one field of the key file that
\* storeKey has just written
Tamper(filePath, field, how) ==
  /\ storeSteps < MaxStoreSteps
  /\ last.op = "storeKey" /\ last.outcome = "ok"
  /\ filePath = GetKeyFilePath(last.walletId)
  /\ keyStore' = [keyStore EXCEPT ![filePath][field] = Alter(@, how)]
  /\ last' = [NoCall EXCEPT !.op = "tamper"]
  /\ storeSteps' = storeSteps + 1
  /\ UNCHANGED <<now, ticks, permissions, transactions, dailyVolume, executionLog,
                 heap, liveKeys, calls, windowStart, confirmed, pending, agent, decisions>>

InitStore ==
  /\ now = 0
  /\ ticks = 0
  /\ permissions = << >>
  /\ transactions = [a \in Agents |-> <<>>]
  /\ dailyVolume = << >>
  /\ executionLog = <<>>
  /\ keyStore = << >>
  /\ heap = NoBuffers
  /\ last = NoCall
  /\ storeSteps = 0
  /\ liveKeys = {}
  /\ calls = [c \in {1} |-> IdleCall]
  /\ windowStart = [a \in Agents |-> 0]
  /\ confirmed = [a \in Agents |-> <<>>]
  /\ pending = NoPending
  /\ agent = NewAgent
  /\ decisions = NoDecisions

NextStore ==
  \/ \E id \in WalletIds, k \in SecretKeys, w \in Passwords, salt \in Salts,
        iv \in Ivs, written \in BOOLEAN :
       StoreKey(id, k, PublicKeyOf(k), w, "m1", salt, iv, written)
  \/ \E id \in WalletIds, w \in Passwords : RetrieveKeyCall(id, w)
  \/ CleanupCall
  \/ \E f \in DOMAIN keyStore, field \in Fields, how \in Alterations : Tamper(f, field, how)

SpecStore == InitStore /\ [][NextStore]_vars

\* the record is as storeKey writes it for this password
Genuine(encryptedData, password) ==
  \E k \in SecretKeys, salt \in Salts, iv \in Ivs :
    encryptedData = EncryptedKeyData(k, encryptedData.publicKey, password, salt, iv,
                                     encryptedData.createdAt, encryptedData.metadata)

\* the last call was retrieveKey, for an id that has a key file
Retrieved == last.op = "retrieveKey" /\ GetKeyFilePath(last.walletId) \in DOMAIN keyStore

\* C16: retrieve of an existing record fails with one and the same error
\* whether the password is wrong or the record's authTag, encryptedKey, iv or
\* salt was altered, and then returns no plaintext at all; it succeeds only
\* for an unaltered record and its password.
C16_Original ==
  Retrieved =>
    IF Genuine(keyStore[GetKeyFilePath(last.walletId)], last.password)
    THEN last.outcome = "ok"
    ELSE /\ last.outcome = "Invalid password or corrupted keystore"
         /\ last.secretKey = <<>>
         /\ heap["decrypted"] = <<>> /\ heap["handleKey"] = <<>>

\* C17: retrieveKey called right after a successful storeKey, for the same id
\* and password, returns a handle whose secret key equals the stored key byte
\* for byte and whose public key is the stored public key.
C17_RoundTrip ==
  [][(/\ last.op = "storeKey" /\ last.outcome = "ok"
      /\ last'.op = "retrieveKey"
      /\ last'.walletId = last.walletId /\ last'.password = last.password)
       => /\ last'.outcome = "ok"
          /\ last'.secretKey = last.argKey
          /\ last'.publicKey = last.argPub
          /\ heap'["handleKey"] = last.argKey]_vars

\* a key with a zero byte, stored under an id that is sanitized, came back
C17_Witness ==
  /\ storeSteps = 2
  /\ last.op = "retrieveKey" /\ last.walletId = "a.1" /\ last.outcome = "ok"
  /\ last.secretKey = <<0, 16>> /\ last.publicKey = PublicKeyOf(<<0, 16>>)

\* C18: after storeKey has returned, neither the secret-key array the caller
\* passed in nor the derived encryption key holds its original bytes: storeKey
\* itself has zeroed both.
C18_Original ==
  (last.op = "storeKey" /\ last.outcome = "ok")
    => /\ heap["secretKey"] = Zeroed(last.argKey)
       /\ heap["derivedKey"] = Zeroed(heap["derivedKey"])

\* C19: whenever retrieveKey has returned a handle or has failed with any
\* error, the key it derived from the password is all zero.
C19_DerivedKeyZeroed ==
  last.op = "retrieveKey" => heap["derivedKey"] = Zeroed(heap["derivedKey"])

\* retrieveKey derived a key and failed at the decipher
C19_Witness ==
  /\ last.op = "retrieveKey"
  /\ last.outcome = "Invalid password or corrupted keystore"
  /\ heap["derivedKey"] # <<>>

\* C20: storeKey for an id that already has a record fails with AlreadyExists
\* and leaves every record as it was; only for an id without a record does it
\* write, and then exactly that one record (a write that the file system
\* itself refuses aside).
C20_Original ==
  [][(last'.op = "storeKey" /\ last'.outcome # "writeFileSync failed")
       => LET filePath == GetKeyFilePath(last'.walletId)
          IN  IF filePath \in DOMAIN keyStore
              THEN last'.outcome = "AlreadyExists" /\ keyStore' = keyStore
              ELSE last'.outcome = "ok"
                     => /\ DOMAIN keyStore' = DOMAIN keyStore \cup {filePath}
                        /\ \A f \in DOMAIN keyStore : keyStore'[f] = keyStore[f]]_vars

\* ---- changing a password, deleting a wallet -------------------------------
\* SecureKeyStore.getWalletInfo: null when there is no file, else the
\* publicKey, createdAt and metadata of the file, read without a password
\* a getWalletInfo that hands out the file's encryptedKey as well
GetWalletInfoWholeFile(files, walletId) ==
  LET filePath == GetKeyFilePath(walletId)
  IN  IF filePath \notin DOMAIN files \/ ~IsJson(files[filePath])
      THEN [outcome |-> "null", publicKey |-> "none", createdAt |-> 0,
            metadata |-> "undefined", encryptedKey |-> <<>>]
      ELSE [outcome |-> "ok", publicKey |-> files[filePath].publicKey,
            createdAt |-> files[filePath].createdAt,
            metadata |-> files[filePath].metadata,
            encryptedKey |-> files[filePath].encryptedKey]

GetWalletInfoFrom(files, walletId) ==
  LET filePath == GetKeyFilePath(walletId)
      none == [outcome |-> "null", publicKey |-> "none", createdAt |-> 0,
               metadata |-> "undefined"]
  IN  IF filePath \notin DOMAIN files THEN none
      ELSE IF ~IsJson(files[filePath]) THEN [none EXCEPT !.outcome = "SyntaxError"]
      ELSE [outcome |-> "ok", publicKey |-> files[filePath].publicKey,
            createdAt |-> files[filePath].createdAt,
            metadata |-> files[filePath].metadata]
GetWalletInfo(walletId) == GetWalletInfoFrom(keyStore, walletId)

\* fs.statSync(filePath).size, as far as it depends on the record: the length
\* of its hex strings
FileSize(file) ==
  Len(file.iv) + Len(file.salt) + Len(file.authTag) + Len(file.encryptedKey)

\* crypto.randomBytes(fileSize)
RandomData(fileSize, noise) == [random |-> noise, size |-> fileSize]

\* deleteWallet runs without suspending: between its two writes no other
\* call of this process runs
Quiet == \A c \in DOMAIN pending : pending[c].pc # "unlink"
Free(c) == Quiet /\ pending[c].pc \in {"idle", "done"}

\* changePassword up to its first await: retrieveKey has run
ChangePassword(c, walletId, oldPassword, newPassword) ==
  LET handle == RetrieveKey(walletId, oldPassword)
  IN  /\ storeSteps < MaxVaultCalls
      /\ Free(c)
      /\ pending' = [pending EXCEPT ![c] =
                       [op |-> "changePassword", pc |-> "awaitRetrieve",
                        walletId |-> walletId, newPassword |-> newPassword,
                        secretKey |-> handle.secretKey, publicKey |-> handle.publicKey,
                        outcome |-> handle.outcome]]
      /\ storeSteps' = storeSteps + 1
      /\ UNCHANGED <<now, ticks, permissions, transactions, dailyVolume, executionLog,
                     keyStore, heap, last, liveKeys, calls, windowStart, confirmed, agent, decisions>>

\* changePassword after retrieveKey has settled: the error of retrieveKey is
\* thrown on; else getWalletInfo and storeKey run, with the salt and iv that
\* storeKey draws (written = FALSE: fs.writeFileSync throws)
ResumeRetrieve(c, salt, iv, written) ==
  LET call == pending[c]
      info == GetWalletInfo(call.walletId)
      encryptedData ==
        EncryptedKeyData(call.secretKey, call.publicKey, call.newPassword, salt, iv,
                         now, info.metadata)
      filePath == GetKeyFilePath(call.walletId)
  IN  /\ Quiet
      /\ call.pc = "awaitRetrieve"
      /\ IF call.outcome # "ok"
         THEN /\ pending' = [pending EXCEPT ![c].pc = "done"]
              /\ UNCHANGED keyStore
         ELSE IF info.outcome = "SyntaxError"
         THEN /\ pending' = [pending EXCEPT ![c].pc = "done",
                                            ![c].outcome = "SyntaxError",
                                            ![c].secretKey = Zeroed(@)]
              /\ UNCHANGED keyStore
         ELSE /\ keyStore' = IF written
                             THEN [f \in DOMAIN keyStore \cup {filePath} |->
                                     IF f = filePath THEN encryptedData ELSE keyStore[f]]
                             ELSE keyStore
              /\ pending' = [pending EXCEPT
                               ![c].pc = "awaitStore",
                               ![c].outcome = IF written THEN "ok"
                                              ELSE "writeFileSync failed"]
      /\ UNCHANGED <<now, ticks, permissions, transactions, dailyVolume, executionLog,
                     heap, last, storeSteps, liveKeys, calls, windowStart, confirmed, agent, decisions>>

\* changePassword after storeKey has settled: its finally block runs the
\* handle's cleanup(), and it returns or throws storeKey's error
ResumeStore(c) ==
  /\ Quiet
  /\ pending[c].pc = "awaitStore"
  /\ pending' = [pending EXCEPT ![c].pc = "done", ![c].secretKey = Zeroed(@)]
  /\ UNCHANGED <<now, ticks, permissions, transactions, dailyVolume, executionLog,
                 keyStore, heap, last, storeSteps, liveKeys, calls, windowStart, confirmed, agent, decisions>>

\* a deleteWallet that unlinks the file as it is
DeleteWalletNoOverwrite(c, walletId, noise) ==
  LET filePath == GetKeyFilePath(walletId)
  IN  /\ storeSteps < MaxVaultCalls
      /\ Free(c)
      /\ pending' = [pending EXCEPT ![c] =
                       [NoChange EXCEPT !.op = "deleteWallet",
                                        !.pc = IF filePath \in DOMAIN keyStore
                                               THEN "unlink" ELSE "done",
                                        !.walletId = walletId,
                                        !.outcome = IF filePath \in DOMAIN keyStore
                                                    THEN "none" ELSE "false"]]
      /\ storeSteps' = storeSteps + 1
      /\ UNCHANGED <<now, ticks, permissions, transactions, dailyVolume, executionLog,
                     keyStore, heap, last, liveKeys, calls, windowStart, confirmed, agent, decisions>>

\* deleteWallet up to its first write: false when there is no file, else the
\* file is overwritten with random bytes of its size
DeleteWallet(c, walletId, noise) ==
  LET filePath == GetKeyFilePath(walletId)
  IN  /\ storeSteps < MaxVaultCalls
      /\ Free(c)
      /\ IF filePath \notin DOMAIN keyStore
         THEN /\ pending' = [pending EXCEPT ![c] =
                               [NoChange EXCEPT !.op = "deleteWallet", !.pc = "done",
                                                !.walletId = walletId,
                                                !.outcome = "false"]]
              /\ UNCHANGED keyStore
         ELSE /\ keyStore' = [keyStore EXCEPT ![filePath] =
                                RandomData(FileSize(keyStore[filePath]), noise)]
              /\ pending' = [pending EXCEPT ![c] =
                               [NoChange EXCEPT !.op = "deleteWallet", !.pc = "unlink",
                                                !.walletId = walletId]]
      /\ storeSteps' = storeSteps + 1
      /\ UNCHANGED <<now, ticks, permissions, transactions, dailyVolume, executionLog,
                     heap, last, liveKeys, calls, windowStart, confirmed, agent, decisions>>

\* the rest of deleteWallet: fs.unlinkSync, and it returns true
Unlink(c) ==
  LET filePath == GetKeyFilePath(pending[c].walletId)
  IN  /\ pending[c].pc = "unlink"
      /\ keyStore' = [f \in DOMAIN keyStore \ {filePath} |-> keyStore[f]]
      /\ pending' = [pending EXCEPT ![c].pc = "done", ![c].outcome = "true"]
      /\ UNCHANGED <<now, ticks, permissions, transactions, dailyVolume, executionLog,
                     heap, last, storeSteps, liveKeys, calls, windowStart, confirmed, agent, decisions>>

InitVault == InitStore

NextVault ==
  \/ \E id \in WalletIds, k \in SecretKeys, salt \in Salts, iv \in Ivs :
       Quiet /\ StoreKey(id, k, PublicKeyOf(k), "pw", "m1", salt, iv, TRUE)
  \/ \E c \in DOMAIN pending, id \in WalletIds, old \in Passwords, new \in NewPasswords :
       ChangePassword(c, id, old, new)
  \/ \E c \in DOMAIN pending, salt \in Salts, iv \in Ivs, written \in BOOLEAN :
       ResumeRetrieve(c, salt, iv, written)
  \/ \E c \in DOMAIN pending : ResumeStore(c)
  \/ \E c \in DOMAIN pending, id \in WalletIds, noise \in Noise : DeleteWallet(c, id, noise)
  \/ \E c \in DOMAIN pending : Unlink(c)

SpecVault == InitVault /\ [][NextVault]_vars

\* C21: when changePassword has retrieved the key under the old password and
\* its storeKey has written, retrieveKey under the new password returns the
\* secret key and the public key that the old password gave, and retrieveKey
\* under the old password fails if the two passwords differ; when retrieveKey
\* under the old password fails, changePassword fails with that error and
\* leaves every record as it was.
C21_ChangePassword ==
  [][\A c \in DOMAIN pending :
       (pending[c].pc = "awaitRetrieve" /\ pending'[c].pc # "awaitRetrieve")
         => LET call == pending[c]
                new == RetrieveKeyFrom(keyStore', call.walletId, call.newPassword)
            IN  IF call.outcome = "ok"
                THEN pending'[c].outcome = "ok"
                       => /\ new.outcome = "ok"
                          /\ new.secretKey = call.secretKey
                          /\ new.publicKey = call.publicKey
                          /\ \A old \in Passwords \ {call.newPassword} :
                               RetrieveKeyFrom(keyStore, call.walletId, old).outcome = "ok"
                                 => RetrieveKeyFrom(keyStore', call.walletId, old).outcome
                                      = "Invalid password or corrupted keystore"
                ELSE /\ pending'[c].pc = "done"
                     /\ pending'[c].outcome = call.outcome
                     /\ pending'[c].outcome
                          \in {"Invalid password or corrupted keystore", "Wallet not found"}
                     /\ keyStore' = keyStore]_vars

\* a changePassword from "pw" to "new" has returned, and the new password
\* opens the record
C21_Witness ==
  /\ pending[1].op = "changePassword" /\ pending[1].pc = "done"
  /\ pending[1].outcome = "ok" /\ pending[1].newPassword = "new"
  /\ RetrieveKey(pending[1].walletId, "new").outcome = "ok"
  /\ RetrieveKey(pending[1].walletId, "pw").outcome
       = "Invalid password or corrupted keystore"

\* C22: deleteWallet of an id without a file returns false and changes no
\* file; of an id with a file it first replaces the file's content by random
\* bytes of the same length, changing no other file, and only a file so
\* overwritten is ever removed; when it has returned true, getWalletInfo of
\* the id gives null and retrieveKey fails with 'Wallet not found' under
\* every password.
C22_Delete ==
  [][/\ \A c \in DOMAIN pending, id \in WalletIds, noise \in Noise :
          DeleteWallet(c, id, noise)
            => LET filePath == GetKeyFilePath(id)
               IN  IF filePath \notin DOMAIN keyStore
                   THEN /\ pending'[c].pc = "done" /\ pending'[c].outcome = "false"
                        /\ keyStore' = keyStore
                   ELSE /\ pending'[c].pc = "unlink"
                        /\ DOMAIN keyStore' = DOMAIN keyStore
                        /\ ~IsJson(keyStore'[filePath])
                        /\ keyStore'[filePath].size = FileSize(keyStore[filePath])
                        /\ \A f \in DOMAIN keyStore \ {filePath} :
                             keyStore'[f] = keyStore[f]
     /\ \A f \in DOMAIN keyStore \ DOMAIN keyStore' : ~IsJson(keyStore[f])
     /\ \A c \in DOMAIN pending :
          Unlink(c)
            => LET id == pending[c].walletId
               IN  /\ pending'[c].pc = "done" /\ pending'[c].outcome = "true"
                   /\ DOMAIN keyStore' = DOMAIN keyStore \ {GetKeyFilePath(id)}
                   /\ \A f \in DOMAIN keyStore' : keyStore'[f] = keyStore[f]
                   /\ GetWalletInfoFrom(keyStore', id).outcome = "null"
                   /\ \A w \in Passwords \cup NewPasswords :
                        RetrieveKeyFrom(keyStore', id, w).outcome = "Wallet not found"]_vars

\* a wallet that had been stored was deleted, another one being kept
C22_Witness ==
  /\ pending[1].op = "deleteWallet" /\ pending[1].pc = "done"
  /\ pending[1].outcome = "true"
  /\ GetKeyFilePath(pending[1].walletId) \notin DOMAIN keyStore
  /\ keyStore # << >>

\* the key files with the record in filePath, which storeKey wrote for some
\* secret key, replaced by the record it would have written for secretKey,
\* all else being equal
WithSecret(filePath, secretKey) ==
  LET file == keyStore[filePath]
      salt == FromHex(file.salt)
      iv == FromHex(file.iv)
      Written(k, w) ==
        EncryptedKeyData(k, file.publicKey, w, salt, iv, file.createdAt, file.metadata)
      passwords == {w \in Passwords \cup NewPasswords :
                      \E k \in SecretKeys : file = Written(k, w)}
  IN  {[keyStore EXCEPT ![filePath] = Written(secretKey, w)] : w \in passwords}

\* what the operations other than a successful retrieveKey give out of the
\* key files: getWalletInfo (which getAddress and getBalance read), and the
\* outcome of retrieveKey, which is the error text of a failed execute,
\* changePassword or load
Outputs(files) ==
  [id \in WalletIds |->
     [info |-> GetWalletInfoFrom(files, id),
      results |-> [w \in Passwords \cup NewPasswords |->
                     LET handle == RetrieveKeyFrom(files, id, w)
                     IN  [result |-> CreateResult(FALSE, "transfer_sol", handle.outcome,
                                                  FALSE, 0),
                          publicKey |-> handle.publicKey]]]]

C24_Original ==
  [][/\ \A c \in Calls :
          (calls[c].pc # "returned" /\ calls'[c].pc = "returned")
            => executionLog' = Append(executionLog, calls'[c].result)
     /\ executionLog' # executionLog
          => \E c \in Calls : calls[c].pc # "returned" /\ calls'[c].pc = "returned"]_vars

\* ExecutionEngine.getExecutionHistory: the agentId is not looked at
GetExecutionHistory(agentId) == executionLog

\* C25: what getExecutionHistory returns for identity A holds results of A's
\* executions only: no step of an execute call made for another identity B
\* changes it.
C25_Original ==
  [][\A c \in Calls, A \in Agents, B \in Agents :
       (StepOf(c, B) /\ A # B)
         => GetExecutionHistory(A)' = GetExecutionHistory(A)]_vars

\* ---- the wallet facade ---------------------------------------------------
\* A SecureAgenticWallet of agent a1 with its engine.  The wallet's
\* config.permissions is the object that create/load handed to registerAgent,
\* which stored the reference in the engine's Map; getConfig returns
\* { ...this.config }, a copy of config whose permissions field is still that
\* object.

\* SecureAgenticWallet.getConfig: permissions is the engine's own record
GetConfig(agentId) == [agentId |-> agentId, permissions |-> permissions[agentId]]

\* a caller assigns to fields of getConfig().permissions, which leaves it as
\* perms
WriteConfig(agentId, perms) ==
  /\ agentId \in DOMAIN permissions
  /\ perms # GetConfig(agentId).permissions
  /\ permissions' = [permissions EXCEPT ![agentId] = perms]
  /\ UNCHANGED <<now, ticks, transactions, dailyVolume, executionLog, keyStore, heap, last,
                 storeSteps, liveKeys, calls, windowStart, confirmed, pending, agent, decisions>>

\* a canExecute that drops the volume record of an earlier day when it reads it
CanExecuteCallResetting(agentId, params) ==
  /\ agentId \in DOMAIN permissions
  /\ last' = [NoCall EXCEPT !.op = "canExecute", !.walletId = agentId,
                            !.outcome = CanExecute(agentId, params)]
  /\ dailyVolume' = IF NoCurrentRecord(agentId)
                    THEN [a \in DOMAIN dailyVolume \ {agentId} |-> dailyVolume[a]]
                    ELSE dailyVolume
  /\ UNCHANGED <<now, ticks, permissions, transactions, executionLog, keyStore,
                 heap, storeSteps, liveKeys, calls, windowStart, confirmed, pending, agent, decisions>>

\* a call of SecureAgenticWallet.canExecute, which only reads: config,
\* getRemainingAllowance, VolumeTracker.getVolume
CanExecuteCall(agentId, params) ==
  /\ agentId \in DOMAIN permissions
  /\ last' = [NoCall EXCEPT !.op = "canExecute", !.walletId = agentId,
                            !.outcome = CanExecute(agentId, params)]
  /\ UNCHANGED <<now, ticks, permissions, transactions, dailyVolume, executionLog,
                 keyStore, heap, storeSteps, liveKeys, calls, windowStart, confirmed,
                 pending, agent, decisions>>

InitFacade ==
  /\ now \in StartTimes
  /\ ticks = 0
  /\ permissions = [a \in {"a1"} |-> RaceProfile]
  /\ transactions = [a \in Agents |-> <<>>]
  /\ dailyVolume = << >>
  /\ executionLog = <<>>
  /\ keyStore = AgentFiles
  /\ heap = NoBuffers
  /\ last = NoCall
  /\ storeSteps = 0
  /\ liveKeys = {}
  /\ calls = [c \in {1} |-> IdleCall]
  /\ windowStart = [a \in Agents |-> 0]
  /\ confirmed = [a \in Agents |-> <<>>]
  /\ pending = NoPending
  /\ agent = NewAgent
  /\ decisions = NoDecisions

NextFacade ==
  \/ \E p \in RaceParams : Execute(1, "a1", "pw", p) /\ Load' <= MaxFacadeExecs
  \/ ResumeKey(1)
  \/ ResumeBuild(1)
  \/ \E ok \in BOOLEAN : ResumeBlockhash(1, ok)
  \/ \E ok \in BOOLEAN : ResumeSend(1, ok)
  \/ \E o \in ConfirmOutcomes : ResumeConfirm(1, o)
  \/ Return(1)
  \/ \E d \in TickSteps : Tick(d)
  \/ \E p \in RaceParams : CanExecuteCall("a1", p)
  \/ \E perms \in Profiles : WriteConfig("a1", perms)

SpecFacade == InitFacade /\ [][NextFacade]_vars

\* C26: the permission profile that the engine holds for a registered
\* identity never changes, whatever the callers of the facade do.
C26_Original ==
  [][\A a \in DOMAIN permissions :
       a \in DOMAIN permissions' /\ permissions'[a] = permissions[a]]_vars

\* C27: a call of canExecute changes no rate window, no volume accumulator,
\* no entry of the execution log and no key-store record, retrieves no key
\* material, and leaves the outcome of the policy checks and of the key
\* retrieval of a later execute as they were, for every request.
C27_CanExecutePure ==
  [][(last'.op = "canExecute" /\ last' # last) =>
       /\ transactions' = transactions
       /\ dailyVolume' = dailyVolume
       /\ executionLog' = executionLog
       /\ keyStore' = keyStore
       /\ liveKeys' = liveKeys
       /\ heap' = heap
       /\ calls' = calls
       /\ \A q \in ParamSet : PolicyCheck("a1", q)' = PolicyCheck("a1", q)]_vars

\* canExecute has answered after a confirmed execution whose volume record
\* is of an earlier day
C27_Witness ==
  /\ last.op = "canExecute"
  /\ last.outcome = "ok"
  /\ Len(executionLog) > 0
  /\ "a1" \in DOMAIN dailyVolume
  /\ dailyVolume["a1"].date # DateOf(now)

\* C28: an addVolume for an identity whose window is open (a record exists
\* and no more than 24 h have passed since the window's first transaction)
\* adds its amount to the accumulator, and an addVolume made when no window
\* exists or the window has expired sets the accumulator to its amount alone.
C28_Original ==
  [][\A c \in Calls :
       ResumeConfirm(c, "confirmed") =>
         LET agentId == calls[c].agentId
             txAmount == TxAmount(calls[c].params)
         IN  dailyVolume'[agentId].amount =
               IF /\ agentId \in DOMAIN dailyVolume
                  /\ now - windowStart[agentId] <= 24 * 60 * 60 * 1000
               THEN dailyVolume[agentId].amount + txAmount
               ELSE txAmount]_vars

\* ---- the agent -----------------------------------------------------------
\* One Agent over an AgenticWallet, whose callers evaluate decisions and ask
\* for generated ones, two calls at a time at most.
Balances == {100, 10000}
Decisions ==
  { Decision("transfer", TRUE, 10), Decision("transfer", TRUE, 500),
    Decision("harvest", FALSE, 0) }
WaitSteps == {60000}

\* buildStrategyContext once wallet.getBalance() has resolved
BuildStrategyContext(balance) ==
  LET log == agent.transactionLog
  IN  [balance |-> balance,
       lastTradeTimestamp |-> IF Len(log) > 0 THEN log[Len(log)].timestamp ELSE 0,
       totalTrades |-> Len(log),
       successfulTrades |-> Cardinality({i \in DOMAIN log : log[i].success}),
       consecutiveFailures |-> agent.consecutiveFailures,
       cooldownUntil |-> agent.cooldownUntil]

\* (decision.amount || 0) / Math.max(ctx.balance, 0.001) as a fraction of
\* integers, in units of 0.00001 SOL
RatioNum(decision) == 1000 * decision.amount
RatioDen(ctx) == IF 1000 * ctx.balance > 100 THEN 1000 * ctx.balance ELSE 100
\* `ctx.successRate < 0.5 && ctx.totalTrades >= 3`
BadRecord(ctx) == 2 * ctx.successfulTrades < ctx.totalTrades /\ ctx.totalTrades >= 3
GoodRecord(ctx) == 5 * ctx.successfulTrades > 4 * ctx.totalTrades /\ ctx.totalTrades >= 3

\* Agent.scoreDecision of a trading agent, in hundredths
ScoreDecision(decision, ctx) ==
  LET num == RatioNum(decision)
      den == RatioDen(ctx)
      timeSinceLastTrade == now - ctx.lastTradeTimestamp
      rule2 == IF 2 * num > den THEN 0 - 20 ELSE IF 5 * num < den THEN 10 ELSE 0
      rule3 == IF ctx.lastTradeTimestamp > 0 /\ timeSinceLastTrade < 30000 THEN 0 - 30
               ELSE IF timeSinceLastTrade > 300000 THEN 10 ELSE 0
      rule4 == IF ctx.consecutiveFailures >= 1 THEN 0 - 15 * ctx.consecutiveFailures ELSE 0
      rule5 == IF BadRecord(ctx) THEN 0 - 20 ELSE IF GoodRecord(ctx) THEN 10 ELSE 0
      rule6 == IF decision.type \in {"transfer", "swap"} THEN 15
               ELSE IF decision.type = "stake" THEN 0 - 10 ELSE 0
      score == 50 + rule2 + rule3 + rule4 + rule5 + rule6
  IN  IF now < ctx.cooldownUntil THEN 0
      ELSE IF 10 * num > 9 * den THEN 0
      ELSE IF ctx.consecutiveFailures >= 3 THEN 0
      ELSE IF score < 0 THEN 0 ELSE IF score > 100 THEN 100 ELSE score

\* `score >= APPROVAL_THRESHOLD` on the doubles: of the sums that make 0.40
\* in decimals, those that took the 0.2 of a bad record off come out as
\* 0.39999999999999997 and fall short (the long-gap bonus, which no trade of
\* these runs earns after the first one, aside)
APPROVAL_THRESHOLD == 40
MeetsThreshold(decision, ctx) ==
  LET score == ScoreDecision(decision, ctx)
  IN  score > APPROVAL_THRESHOLD \/ (score = APPROVAL_THRESHOLD /\ ~BadRecord(ctx))

\* `decision.amount && decision.amount > this.config.maxTransactionSize`
ExceedsMax(decision) ==
  decision.amount # 0 /\ decision.amount > agent.config.maxTransactionSize

\* generateTradingDecision: null, or a transfer to a peer of 5 or 15 % of the
\* balance, capped by maxTransactionSize
GenerateTradingDecision(ctx) ==
  IF ctx.balance < 5 THEN NoDecision
  ELSE IF ctx.lastTradeTimestamp > 0 /\ now - ctx.lastTradeTimestamp < 30000
    THEN NoDecision
  ELSE LET riskFactor == IF 10 * ctx.successfulTrades > 7 * ctx.totalTrades
                              \/ ctx.totalTrades = 0
                         THEN 15 ELSE 5
           tradeSize == (ctx.balance * riskFactor) \div 100
       IN  Decision("transfer", TRUE,
                    IF tradeSize < agent.config.maxTransactionSize
                    THEN tradeSize ELSE agent.config.maxTransactionSize)

Idle(c) == decisions[c].pc \in {"idle", "done"}
\* the call has ended with this outcome (its locals are gone)
Done(c, outcome) ==
  [NoEvaluation EXCEPT !.op = decisions[c].op, !.pc = "done", !.outcome = outcome,
                       !.sent = decisions[c].sent]
\* the decisions executed so far and the evaluateDecision calls in progress
AgentLoad ==
  Len(agent.transactionLog)
    + Cardinality({c \in AgentCalls :
                     decisions[c].op = "evaluateDecision" /\ ~Idle(c)})

\* evaluateDecision up to `await this.buildStrategyContext()`, which awaits
\* wallet.getBalance()
EvaluateDecision(c, decision) ==
  /\ Idle(c)
  /\ agent' = [agent EXCEPT !.state = "evaluating"]
  /\ decisions' = [decisions EXCEPT ![c] =
                     [NoEvaluation EXCEPT !.op = "evaluateDecision",
                                          !.pc = "awaitBalance",
                                          !.decision = decision]]
  /\ UNCHANGED <<now, ticks, permissions, transactions, dailyVolume, executionLog,
                 keyStore, heap, last, storeSteps, liveKeys, calls, windowStart,
                 confirmed, pending>>

\* generateDecision up to `await this.buildStrategyContext()`
GenerateDecision(c) ==
  /\ Idle(c)
  /\ decisions' = [decisions EXCEPT ![c] =
                     [NoEvaluation EXCEPT !.op = "generateDecision",
                                          !.pc = "awaitBalance"]]
  /\ UNCHANGED <<now, ticks, permissions, transactions, dailyVolume, executionLog,
                 keyStore, heap, last, storeSteps, liveKeys, calls, windowStart,
                 confirmed, pending, agent>>

\* wallet.getBalance() has settled: buildStrategyContext builds the context
\* from the agent's fields as they are now, or the rejection goes up to the
\* caller of evaluateDecision or generateDecision, which catch nothing
ResumeBalance(c, ok, balance) ==
  /\ decisions[c].pc = "awaitBalance"
  /\ decisions' = [decisions EXCEPT ![c] =
                     IF ~ok
                     THEN Done(c, "throws")
                     ELSE [@ EXCEPT !.pc = "awaitContext",
                                    !.ctx = BuildStrategyContext(balance),
                                    !.sending = {c2 \in AgentCalls :
                                                   decisions[c2].pc = "awaitSend"}]]
  /\ UNCHANGED <<now, ticks, permissions, transactions, dailyVolume, executionLog,
                 keyStore, heap, last, storeSteps, liveKeys, calls, windowStart,
                 confirmed, pending, agent>>

\* executeDecision's `// Log success` to its return (of a log entry the
\* model keeps success and timestamp, which is all the agent reads again)
Succeed(c) ==
  /\ agent' = [agent EXCEPT
                 !.transactionLog =
                    Append(@, [success |-> TRUE, timestamp |-> now]),
                 !.consecutiveFailures = 0,
                 !.cooldownUntil = now + 15000,
                 !.state = "cooldown"]
  /\ decisions' = [decisions EXCEPT ![c] = Done(c, "true")]

\* executeDecision's catch block
Fail(c) ==
  /\ agent' = [agent EXCEPT
                 !.transactionLog =
                    Append(@, [success |-> FALSE, timestamp |-> now]),
                 !.consecutiveFailures = @ + 1,
                 !.cooldownUntil = now + 30000 * 2 ^ agent.consecutiveFailures,
                 !.state = "cooldown"]
  /\ decisions' = [decisions EXCEPT ![c] = Done(c, "false")]

\* executeDecision up to `await this.wallet.sendSOL(...)`, or to its end
\* when the decision needs no transaction or is invalid
ExecuteDecision(c) ==
  LET decision == decisions[c].decision
  IN  IF decision.type \in {"transfer", "swap", "stake"}
      THEN IF ~decision.targetAddress \/ decision.amount = 0
           THEN Fail(c)
           ELSE /\ agent' = [agent EXCEPT !.state = "executing"]
                /\ decisions' = [decisions EXCEPT ![c].pc = "awaitSend",
                                                  ![c].sent = TRUE,
                                                  ![c].sending = {}]
      ELSE IF decision.type \in {"harvest", "custom"}
        THEN Succeed(c)
      ELSE Fail(c)

\* the rest of evaluateDecision: the score, the hard limit, the threshold
Evaluate(c) ==
  LET decision == decisions[c].decision
      ctx == decisions[c].ctx
  IN  IF ExceedsMax(decision)
      THEN /\ agent' = [agent EXCEPT !.state = "idle"]
           /\ decisions' = [decisions EXCEPT ![c] = Done(c, "false")]
      ELSE IF agent.config.autoApprove /\ MeetsThreshold(decision, ctx)
        THEN ExecuteDecision(c)
      ELSE /\ agent' = [agent EXCEPT !.state = "idle"]
           /\ decisions' = [decisions EXCEPT ![c] = Done(c, "false")]

\* the rest of generateDecision: the circuit breaker, the cooldown, the
\* strategy's generator
Generate(c) ==
  LET ctx == decisions[c].ctx
      generated == IF ctx.consecutiveFailures >= 3 THEN NoDecision
                   ELSE IF now < ctx.cooldownUntil THEN NoDecision
                   ELSE IF agent.config.strategy = "trading"
                     THEN GenerateTradingDecision(ctx)
                   ELSE NoDecision
  IN  /\ decisions' = [decisions EXCEPT
                         ![c].pc = "done",
                         ![c].decision = generated,
                         ![c].outcome = IF generated = NoDecision THEN "null"
                                        ELSE "decision"]
      /\ UNCHANGED agent

\* buildStrategyContext() has returned the context to the call that awaits it
ResumeContext(c) ==
  /\ decisions[c].pc = "awaitContext"
  /\ IF decisions[c].op = "evaluateDecision" THEN Evaluate(c) ELSE Generate(c)
  /\ UNCHANGED <<now, ticks, permissions, transactions, dailyVolume, executionLog,
                 keyStore, heap, last, storeSteps, liveKeys, calls, windowStart,
                 confirmed, pending>>

\* wallet.sendSOL() has settled.  A call that stands between the return of
\* buildStrategyContext and its own continuation is overtaken only by a send
\* that was pending before: one begun since settles in a later turn of the
\* event loop
ResumeSendSOL(c, ok) ==
  /\ decisions[c].pc = "awaitSend"
  /\ \A c2 \in AgentCalls :
       decisions[c2].pc = "awaitContext" => c \in decisions[c2].sending
  /\ IF ok THEN Succeed(c) ELSE Fail(c)
  /\ UNCHANGED <<now, ticks, permissions, transactions, dailyVolume, executionLog,
                 keyStore, heap, last, storeSteps, liveKeys, calls, windowStart,
                 confirmed, pending>>

\* time passes, while no call stands between the return of
\* buildStrategyContext and its own continuation, which are microtasks of
\* one turn of the event loop
Wait(d) ==
  /\ ticks < MaxWaits
  /\ \A c \in AgentCalls : decisions[c].pc # "awaitContext"
  /\ now' = now + d
  /\ ticks' = ticks + 1
  /\ UNCHANGED <<permissions, transactions, dailyVolume, executionLog, keyStore, heap,
                 last, storeSteps, liveKeys, calls, windowStart, confirmed, pending,
                 agent, decisions>>

InitAgent ==
  /\ now = 43200000
  /\ ticks = 0
  /\ permissions = << >>
  /\ transactions = [a \in Agents |-> <<>>]
  /\ dailyVolume = << >>
  /\ executionLog = <<>>
  /\ keyStore = << >>
  /\ heap = NoBuffers
  /\ last = NoCall
  /\ storeSteps = 0
  /\ liveKeys = {}
  /\ calls = [c \in {1} |-> IdleCall]
  /\ windowStart = [a \in Agents |-> 0]
  /\ confirmed = [a \in Agents |-> <<>>]
  /\ pending = NoPending
  /\ \E autoApprove \in BOOLEAN :
       agent = [NewAgent EXCEPT !.config = AgentConfig(autoApprove)]
  /\ decisions = NoDecisions

NextAgent ==
  \/ \E c \in AgentCalls, decision \in Decisions :
       EvaluateDecision(c, decision) /\ AgentLoad' <= MaxAgentRuns
  \/ GenerateDecision(1)
  \/ \E c \in AgentCalls, ok \in BOOLEAN, balance \in Balances :
       ResumeBalance(c, ok, balance)
  \/ \E c \in AgentCalls : ResumeContext(c)
  \/ \E c \in AgentCalls, ok \in BOOLEAN : ResumeSendSOL(c, ok)
  \/ \E d \in WaitSteps : Wait(d)

SpecAgent == InitAgent /\ [][NextAgent]_vars

\* C29: an evaluateDecision call whose decision's amount exceeds
\* config.maxTransactionSize ends by returning false, with the agent state
\* idle, without having asked the wallet to send and without a new entry in
\* the transaction log.
C29_Original ==
  [][\A c \in AgentCalls :
       (/\ decisions[c].op = "evaluateDecision"
        /\ ~Idle(c)
        /\ ExceedsMax(decisions[c].decision)
        /\ decisions'[c].pc = "done")
         => /\ decisions'[c].outcome = "false"
            /\ ~decisions'[c].sent
            /\ agent'.transactionLog = agent.transactionLog
            /\ agent'.state = "idle"]_vars

\* C30: while consecutiveFailures is 3 or more, scoreDecision gives 0 for
\* every decision and balance, a generateDecision call that ends returns
\* null (a failed balance lookup, which ends it with the lookup's error, set
\* aside: see C29), and no evaluateDecision call goes on to execute its
\* decision (it neither asks the wallet to send nor adds to the transaction
\* log).
C30_Original ==
  [][agent.consecutiveFailures >= 3 =>
       /\ \A decision \in Decisions, balance \in Balances :
            ScoreDecision(decision, BuildStrategyContext(balance)) = 0
       /\ \A c \in AgentCalls :
            (/\ decisions[c].op = "generateDecision"
             /\ ~Idle(c)
             /\ decisions'[c].pc = "done")
              => decisions'[c].outcome \in {"null", "throws"}
       /\ \A c \in AgentCalls :
            (decisions[c].op = "evaluateDecision" /\ decisions[c].pc = "awaitContext")
              => (decisions'[c].pc # "awaitSend"
                  /\ (decisions'[c] # decisions[c]
                        => agent'.transactionLog = agent.transactionLog))]_vars

\* ---- two ids, one file name -----------------------------------------------
\* One key store whose caller uses the ids "a.1" and "a_1".
AliasIds == {"a.1", "a_1"}

NextAlias ==
  \/ \E id \in AliasIds, k \in SecretKeys, salt \in Salts, iv \in Ivs :
       Quiet /\ StoreKey(id, k, PublicKeyOf(k), "pw", "m1", salt, iv, TRUE)
  \/ \E c \in DOMAIN pending, id \in AliasIds, new \in NewPasswords :
       ChangePassword(c, id, "pw", new)
  \/ \E c \in DOMAIN pending, salt \in Salts, iv \in Ivs :
       ResumeRetrieve(c, salt, iv, TRUE)
  \/ \E c \in DOMAIN pending : ResumeStore(c)
  \/ \E c \in DOMAIN pending, id \in AliasIds, noise \in Noise : DeleteWallet(c, id, noise)
  \/ \E c \in DOMAIN pending : Unlink(c)

SpecAlias == InitVault /\ [][NextAlias]_vars

\* what getWalletInfo and retrieveKey (for each password) answer for an id
RecordOf(files, walletId) ==
  [info |-> GetWalletInfoFrom(files, walletId),
   handle |-> [w \in Passwords \cup NewPasswords |-> RetrieveKeyFrom(files, walletId, w)]]

\* C31: a storeKey, a changePassword or a deleteWallet for one id leaves what
\* getWalletInfo and retrieveKey answer for every other id as it was.
C31_Original ==
  [][\A id \in AliasIds :
       (\/ \E k \in SecretKeys, salt \in Salts, iv \in Ivs :
             StoreKey(id, k, PublicKeyOf(k), "pw", "m1", salt, iv, TRUE)
        \/ \E c \in DOMAIN pending :
             /\ pending[c].walletId = id
             /\ pending[c].pc \in {"awaitRetrieve", "unlink"}
             /\ pending'[c] # pending[c]
        \/ \E c \in DOMAIN pending, noise \in Noise : DeleteWallet(c, id, noise))
         => \A other \in AliasIds \ {id} :
              RecordOf(keyStore', other) = RecordOf(keyStore, other)]_vars

\* ---- one caller, one execution at a time --------------------------------
\* One engine whose caller awaits every execute() before it makes the next
\* one.  The profile allows transfers and custom transactions, at most 2 per
\* transaction and 3 per day.  A custom request carries its own
\* instructions, so its amount is read by the policy checks and by addVolume
\* and by nothing else.  The agents a1 and a2 are registered, the key store
\* holds a record for a1 only, and a.1 is the id of no agent.
SerialIds == {"a1", "a2", "a.1"}
CustomParams(hasAmount, amount, instructions) ==
  [action |-> "custom", hasAmount |-> hasAmount, amount |-> amount,
   destination |-> NoDest, instructions |-> instructions]
SerialProfile == Profile(STANDARD, 2, 3, {"transfer_sol", "custom"}, FALSE, {}, 2)
SerialParams ==
  { Params("transfer_sol", TRUE, 2, "d1"), Params("transfer_sol", FALSE, 0, "d1"),
    CustomParams(TRUE, -1, 1) }

InitSerial ==
  /\ now \in StartTimes
  /\ ticks = 0
  /\ permissions = [a \in Agents |-> SerialProfile]
  /\ transactions = [a \in Agents |-> <<>>]
  /\ dailyVolume = << >>
  /\ executionLog = <<>>
  /\ keyStore = [f \in {GetKeyFilePath("a1")} |-> AgentFiles[f]]
  /\ heap = NoBuffers
  /\ last = NoCall
  /\ storeSteps = 0
  /\ liveKeys = {}
  /\ calls = [c \in {1} |-> IdleCall]
  /\ windowStart = [a \in Agents |-> 0]
  /\ confirmed = [a \in Agents |-> <<>>]
  /\ pending = NoPending
  /\ agent = NewAgent
  /\ decisions = NoDecisions

NextSerial ==
  \/ \E a \in SerialIds, w \in Passwords, p \in SerialParams :
       Execute(1, a, w, p) /\ Load' <= MaxSerialExecs
  \/ ResumeKey(1)
  \/ ResumeBuild(1)
  \/ \E ok \in BOOLEAN : ResumeBlockhash(1, ok)
  \/ \E ok \in BOOLEAN : ResumeSend(1, ok)
  \/ \E o \in ConfirmOutcomes : ResumeConfirm(1, o)
  \/ Return(1)
  \/ \E d \in TickSteps : Tick(d)

SpecSerial == InitSerial /\ [][NextSerial]_vars

\* C32: when the executions of one identity on one engine run one after
\* another, the identity's accumulated volume in the current window never
\* exceeds maxDailyVolume: a transaction confirmed while the window that the
\* identity's first transaction opened is still open (no more than 24 h ago)
\* brings the accumulated volume to at most the cap.
C32_Original ==
  [][\A c \in Calls :
       ResumeConfirm(c, "confirmed") =>
         LET agentId == calls[c].agentId
         IN  (/\ agentId \in DOMAIN dailyVolume
              /\ now - windowStart[agentId] <= 24 * 60 * 60 * 1000)
               => dailyVolume[agentId].amount + TxAmount(calls[c].params)
                    <= permissions[agentId].maxDailyVolume]_vars

\* ---- two wallet instances of one identity ------------------------------
\* SecureAgenticWallet.load has been called twice for the agent a1, with the
\* same key store directory, permissions and password.  Every load makes an
\* ExecutionEngine of its own and registers the agent with it, so each
\* instance has a rate limiter and a volume tracker of its own:
\* transactions[i] and dailyVolume[i] are the maps of instance i's engine,
\* and calls[i] is the execute() in progress on it; the callers await each
\* execute() of an instance before they make its next one.  The permission
\* maps of the two engines have the same content, and executionLog holds the
\* entries of both logs in the order they were written.  The clock advances
\* by half-minutes only, so all the transactions fall on one day.
Instances == {1, 2}
InstanceProfile == Profile(STANDARD, 2, 3, {"transfer_sol"}, FALSE, {}, 2)
InstanceParams ==
  { Params("transfer_sol", TRUE, 1, "d1"), Params("transfer_sol", TRUE, 2, "d1") }

VolumeOf(tracker, agentId) ==
  IF agentId \notin DOMAIN tracker \/ tracker[agentId].date # DateOf(now)
  THEN 0 ELSE tracker[agentId].amount

VolumeAdded(tracker, agentId, amount) ==
  [a \in DOMAIN tracker \cup {agentId} |->
     IF a # agentId THEN tracker[a]
     ELSE IF agentId \notin DOMAIN tracker \/ tracker[agentId].date # DateOf(now)
          THEN [amount |-> amount, date |-> DateOf(now)]
          ELSE [amount |-> tracker[a].amount + amount, date |-> tracker[a].date]]

TransactionRecorded(limiter, agentId) ==
  LET pushed == Append(limiter[agentId], now)
  IN  [limiter EXCEPT ![agentId] =
         IF Len(pushed) > MaxEntries THEN Tail(pushed) ELSE pushed]

InstancePolicyCheck(i, agentId, params) ==
  LET permCheck == ValidatePermissions(agentId, params)
  IN  IF permCheck # "ok" THEN permCheck
      ELSE IF ~(Len(Filter(transactions[i][agentId], now))
                  < permissions[agentId].rateLimit)
        THEN "Rate limit exceeded"
      ELSE IF VolumeOf(dailyVolume[i], agentId) + TxAmount(params)
                > permissions[agentId].maxDailyVolume
        THEN "Daily volume limit exceeded"
      ELSE "ok"

\* wallet instance i: execute(params), up to the first await of the engine's
\* execute(agentId, password, params)
WalletExecute(i, params) ==
  /\ calls[i].pc = "idle"
  /\ LET reason == InstancePolicyCheck(i, "a1", params)
         key == RetrieveKey("a1", "pw").outcome
     IN  IF reason # "ok"
         THEN Reject(i, "a1", params, reason)
         ELSE /\ calls' = [calls EXCEPT ![i] =
                   [IdleCall EXCEPT !.pc = "awaitKey", !.agentId = "a1",
                                    !.params = params, !.settled = key,
                                    !.retrieved = TRUE,
                                    !.key = IF key = "ok" THEN i ELSE 0]]
              /\ liveKeys' = IF key = "ok" THEN liveKeys \cup {i} ELSE liveKeys
              /\ UNCHANGED <<transactions, dailyVolume, executionLog, windowStart,
                             confirmed>>
  /\ UNCHANGED <<now, ticks, permissions, keyStore, heap, last, storeSteps, pending, agent, decisions>>

\* instance i's confirmTransaction() has settled
WalletResumeConfirm(i, outcome) ==
  /\ calls[i].pc = "awaitConfirm"
  /\ IF outcome = "throws"
     THEN Throw(i, "confirmTransaction failed")
     ELSE LET agentId == calls[i].agentId
              txAmount == TxAmount(calls[i].params)
              result == CreateResult(TRUE, calls[i].params.action, "none", TRUE, txAmount)
          IN  /\ transactions' = [transactions EXCEPT ![i] =
                                    TransactionRecorded(@, agentId)]
              /\ dailyVolume' = [dailyVolume EXCEPT ![i] =
                                   VolumeAdded(@, agentId, txAmount)]
              /\ executionLog' = Append(executionLog, result)
              /\ liveKeys' = Cleanup(calls[i].key)
              /\ calls' = [calls EXCEPT ![i].pc = "returned", ![i].settled = "none",
                                        ![i].result = result]
              /\ windowStart' = [windowStart EXCEPT ![agentId] =
                                   IF confirmed[agentId] = <<>> THEN now ELSE @]
              /\ confirmed' = [confirmed EXCEPT ![agentId] = Append(@, now)]
              /\ UNCHANGED <<now, ticks, permissions, keyStore, heap, last, storeSteps, pending, agent, decisions>>

InitInstances ==
  /\ now \in StartTimes
  /\ ticks = 0
  /\ permissions = [a \in {"a1"} |-> InstanceProfile]
  /\ transactions = [i \in Instances |-> [a \in {"a1"} |-> <<>>]]
  /\ dailyVolume = [i \in Instances |-> << >>]
  /\ executionLog = <<>>
  /\ keyStore = AgentFiles
  /\ heap = NoBuffers
  /\ last = NoCall
  /\ storeSteps = 0
  /\ liveKeys = {}
  /\ calls = [i \in Instances |-> IdleCall]
  /\ windowStart = [a \in Agents |-> 0]
  /\ confirmed = [a \in Agents |-> <<>>]
  /\ pending = NoPending
  /\ agent = NewAgent
  /\ decisions = NoDecisions

NextInstances ==
  \/ \E i \in Instances, p \in InstanceParams :
       WalletExecute(i, p) /\ Load' <= MaxInstanceExecs
  \/ \E i \in Instances : ResumeKey(i)
  \/ \E i \in Instances : ResumeBuild(i)
  \/ \E i \in Instances, ok \in BOOLEAN : ResumeBlockhash(i, ok)
  \/ \E i \in Instances, ok \in BOOLEAN : ResumeSend(i, ok)
  \/ \E i \in Instances, o \in ConfirmOutcomes : WalletResumeConfirm(i, o)
  \/ \E i \in Instances : Return(i)
  \/ Tick(30000)

SpecInstances == InitInstances /\ [][NextInstances]_vars

\* C33: the daily cap bounds an identity across its wallet instances: the
\* amounts confirmed for it today, summed over the instances loaded for it,
\* never exceed maxDailyVolume.
C33_Original ==
  \A a \in DOMAIN permissions :
    VolumeOf(dailyVolume[1], a) + VolumeOf(dailyVolume[2], a)
      <= permissions[a].maxDailyVolume

\* C34: within one volume window an identity's accumulated volume never
\* decreases and is never negative, whatever amounts the policy checks let
\* through: a confirmed transaction leaves the accumulator at 0 or more, and
\* at no less than it was when the record it adds to is the current one.
C34_Original ==
  [][\A c \in Calls :
       ResumeConfirm(c, "confirmed") =>
         LET agentId == calls[c].agentId
         IN  /\ dailyVolume'[agentId].amount >= 0
             /\ ~NoCurrentRecord(agentId)
                  => dailyVolume'[agentId].amount >= dailyVolume[agentId].amount]_vars

\* C35: execute never throws.  A call of execute() is either suspended at one
\* of its awaits or has returned an ExecutionResult, and a result that is not
\* a success carries an error message; the engine keeps no lock or flag that
\* a failed call could leave set, and it executes the calls made after one.
ExecuteAwaits == {"awaitKey", "awaitBuild", "awaitBlockhash", "awaitSend", "awaitConfirm"}
InitChange ==
  /\ now = 0
  /\ ticks = 0
  /\ permissions = << >>
  /\ transactions = [a \in Agents |-> <<>>]
  /\ dailyVolume = << >>
  /\ executionLog = <<>>
  /\ keyStore = [f \in {GetKeyFilePath("a1")} |-> AgentFiles[f]]
  /\ heap = NoBuffers
  /\ last = NoCall
  /\ storeSteps = 0
  /\ liveKeys = {}
  /\ calls = [c \in {1} |-> IdleCall]
  /\ windowStart = [a \in Agents |-> 0]
  /\ confirmed = [a \in Agents |-> <<>>]
  /\ pending = [c \in {1, 2} |-> NoChange]
  /\ agent = NewAgent
  /\ decisions = NoDecisions

NextChange ==
  \/ \E c \in DOMAIN pending, old \in Passwords \cup NewPasswords, new \in NewPasswords :
       ChangePassword(c, "a1", old, new)
  \/ \E c \in DOMAIN pending, salt \in Salts, iv \in Ivs, written \in BOOLEAN :
       ResumeRetrieve(c, salt, iv, written)
  \/ \E c \in DOMAIN pending : ResumeStore(c)
  \/ \E d \in TickSteps : Tick(d)

SpecChange == InitChange /\ [][NextChange]_vars

\* C36: changePassword is atomic: however two concurrent changePassword calls
\* that both present the current password interleave, a call that reports
\* success has its own new password as the password of the record at the
\* moment it returns.
C36_Original ==
  [][\A c \in DOMAIN pending :
       (ResumeStore(c) /\ pending[c].outcome = "ok")
         => RetrieveKeyFrom(keyStore', pending[c].walletId,
                            pending[c].newPassword).outcome = "ok"]_vars

\* ---- the approval threshold ----------------------------------------------
\* One engine whose caller registers the agent a1 again and again with a
\* profile that differs from the one in force in requiresApproval only (absent,
\* 1 or 2), between and during the agent's executions of transfers of 1 and 2.
ApprovalThresholds == {0, 1, 2}
WithApproval(perms, threshold) == [perms EXCEPT !.requiresApproval = threshold]
ApprovalParams ==
  { Params("transfer_sol", TRUE, 1, "d1"), Params("transfer_sol", TRUE, 2, "d1"),
    Params("transfer_sol", TRUE, 3, "d1") }

InitApproval ==
  /\ now \in StartTimes
  /\ ticks = 0
  /\ \E t \in ApprovalThresholds :
       permissions = [a \in {"a1"} |-> WithApproval(SerialProfile, t)]
  /\ transactions = [a \in Agents |-> <<>>]
  /\ dailyVolume = << >>
  /\ executionLog = <<>>
  /\ keyStore = AgentFiles
  /\ heap = NoBuffers
  /\ last = NoCall
  /\ storeSteps = 0
  /\ liveKeys = {}
  /\ calls = [c \in {1} |-> IdleCall]
  /\ windowStart = [a \in Agents |-> 0]
  /\ confirmed = [a \in Agents |-> <<>>]
  /\ pending = NoPending
  /\ agent = NewAgent
  /\ decisions = NoDecisions

NextApproval ==
  \/ \E p \in ApprovalParams : Execute(1, "a1", "pw", p) /\ Load' <= MaxApprovalExecs
  \/ ResumeKey(1)
  \/ ResumeBuild(1)
  \/ \E ok \in BOOLEAN : ResumeBlockhash(1, ok)
  \/ \E ok \in BOOLEAN : ResumeSend(1, ok)
  \/ \E o \in ConfirmOutcomes : ResumeConfirm(1, o)
  \/ Return(1)
  \/ Tick(30000)
  \/ \E t \in ApprovalThresholds :
       RegisterAgent("a1", WithApproval(permissions["a1"], t))

SpecApproval == InitApproval /\ [][NextApproval]_vars

RecordTransactionCall(agentId) ==
  /\ Len(confirmed[agentId]) < MaxRecords
  /\ transactions' = [transactions EXCEPT ![agentId] = RecordTransaction(agentId)]
  /\ confirmed' = [confirmed EXCEPT ![agentId] = Append(@, now)]
  /\ UNCHANGED <<now, ticks, permissions, dailyVolume, executionLog, keyStore, heap,
                 last, storeSteps, liveKeys, calls, windowStart, pending, agent, decisions>>

NextLimiter ==
  \/ RecordTransactionCall("a1")
  \/ \E d \in TickSteps : Tick(d)

SpecLimiter == InitBurst /\ [][NextLimiter]_vars

\* C38: after any sequence of record calls the identity's rate window holds at
\* most 100 timestamps, and they are the most recently recorded ones in
\* recording order.
C38_WindowKeepsLatest ==
  \A a \in Agents :
    LET recorded == confirmed[a]
        kept == IF Len(recorded) > MaxEntries THEN MaxEntries ELSE Len(recorded)
    IN  /\ Len(transactions[a]) <= MaxEntries
        /\ transactions[a] = SubSeq(recorded, Len(recorded) - kept + 1, Len(recorded))
\* more than 100 timestamps were recorded, the clock advanced on the way, and
\* the oldest entry has been dropped from the window
C38_Witness ==
  /\ Len(confirmed["a1"]) > MaxEntries
  /\ Len(transactions["a1"]) = MaxEntries
  /\ transactions["a1"][1] # transactions["a1"][MaxEntries]
  /\ transactions["a1"][1] = confirmed["a1"][Len(confirmed["a1"]) - MaxEntries + 1]

\* C39: a successful changePassword leaves what info(id) returns unchanged:
\* the publicKey, the createdAt and the metadata of the record it writes are
\* those of the record it replaces.
C39_Original ==
  [][\A c \in DOMAIN pending :
       (/\ pending[c].pc = "awaitRetrieve"
        /\ pending'[c].pc = "awaitStore"
        /\ pending'[c].outcome = "ok")
         => LET before == GetWalletInfoFrom(keyStore, pending[c].walletId)
                after == GetWalletInfoFrom(keyStore', pending[c].walletId)
            IN  /\ after.publicKey = before.publicKey
                /\ after.createdAt = before.createdAt
                /\ after.metadata = before.metadata]_vars

\* getState(): cooldown while the clock is before cooldownUntil, and the
\* state field otherwise
GetState == IF now < agent.cooldownUntil THEN "cooldown" ELSE agent.state

\* C40: the agent's states cycle idle -> evaluating -> executing -> cooldown
\* -> idle: when an executed decision has put the agent in cooldown and no
\* call on the agent is in progress, getState reports idle as soon as the
\* clock has reached the end of the cooldown, with no further call.
C40_Original ==
  [][\A d \in WaitSteps :
       (/\ Wait(d)
        /\ \A c \in AgentCalls : Idle(c)
        /\ GetState = "cooldown"
        /\ now' >= agent.cooldownUntil)
         => GetState' = "idle"]_vars
====
